---- MODULE Spec2Model ----
(***************************************************************************)
(* Judge orchestration core of app/judges.py: JudgeOrchestrator,          *)
(* SuperJudge, JudgeEvaluationPlan, JudgeFactory and ConcreteJudge,       *)
(* running as coroutines on one asyncio event loop.                       *)
(*                                                                         *)
(* Text is a sequence of one-character strings, so that strip, join and   *)
(* json.loads are computed and not assumed.                               *)
(***************************************************************************)
EXTENDS Integers, Sequences, FiniteSets, TLC

\* ------------------------------------------------------------------ bounds
\* Largest number of judges, over the assemblies being evaluated together.
MaxJudges == 2

\* The concurrent run_evaluation calls (two HTTP requests on one loop).
Calls == {1, 2}

\* ------------------------------------------------------------------ text
None == <<"None">>

WS == {" ", "\n", "\t"}

RECURSIVE LStrip(_)
\* str.lstrip(): drop leading whitespace.
LStrip(s) ==
    IF s = <<>> THEN <<>>
    ELSE IF Head(s) \in WS THEN LStrip(Tail(s)) ELSE s

RECURSIVE RStrip(_)
\* str.rstrip(): drop trailing whitespace.
RStrip(s) ==
    IF s = <<>> THEN <<>>
    ELSE IF s[Len(s)] \in WS THEN RStrip(SubSeq(s, 1, Len(s) - 1)) ELSE s

\* str.strip()
Strip(s) == RStrip(LStrip(s))

RECURSIVE Join(_, _)
\* sep.join(parts)
Join(sep, parts) ==
    IF parts = <<>> THEN <<>>
    ELSE IF Len(parts) = 1 THEN parts[1]
    ELSE parts[1] \o sep \o Join(sep, Tail(parts))

NL == <<"\n">>

\* ------------------------------------------------------------------ json
\* json.loads on the JSON subset the judges' metaprompts are written in:
\* a string literal without escapes, or an object whose members are string
\* literals; blanks may separate tokens.  The result is
\* [ok, kind, keys, vals]: ok = FALSE stands for json.JSONDecodeError.
JsonError == [ok |-> FALSE, kind |-> "none", keys |-> <<>>, vals |-> <<>>]

RECURSIVE SkipWs(_, _)
SkipWs(s, p) ==
    IF p <= Len(s) /\ s[p] \in WS THEN SkipWs(s, p + 1) ELSE p

RECURSIVE ScanString(_, _)
\* Position of the closing quote of the string literal whose body starts at
\* p, or 0 when the literal is not terminated.
ScanString(s, p) ==
    IF p > Len(s) THEN 0
    ELSE IF s[p] = "\"" THEN p
    ELSE ScanString(s, p + 1)

\* A string literal at p: [ok, val, next].
ParseString(s, p) ==
    IF p > Len(s) \/ s[p] # "\""
    THEN [ok |-> FALSE, val |-> <<>>, next |-> p]
    ELSE LET q == ScanString(s, p + 1)
         IN  IF q = 0 THEN [ok |-> FALSE, val |-> <<>>, next |-> p]
             ELSE [ok |-> TRUE, val |-> SubSeq(s, p + 1, q - 1), next |-> q + 1]

RECURSIVE ParseMembers(_, _, _, _)
\* The members of an object after its opening brace, p at the first key.
ParseMembers(s, p, keys, vals) ==
    LET k  == ParseString(s, SkipWs(s, p))
        c  == SkipWs(s, k.next)
        v  == ParseString(s, SkipWs(s, c + 1))
        e  == SkipWs(s, v.next)
    IN  IF ~k.ok \/ c > Len(s) \/ s[c] # ":" \/ ~v.ok \/ e > Len(s)
        THEN [ok |-> FALSE, keys |-> <<>>, vals |-> <<>>, next |-> p]
        ELSE IF s[e] = "}"
        THEN [ok |-> TRUE, keys |-> Append(keys, k.val),
              vals |-> Append(vals, v.val), next |-> e + 1]
        ELSE IF s[e] = ","
        THEN ParseMembers(s, e + 1, Append(keys, k.val), Append(vals, v.val))
        ELSE [ok |-> FALSE, keys |-> <<>>, vals |-> <<>>, next |-> p]

JsonLoads(s) ==
    LET p == SkipWs(s, 1)
    IN  IF p > Len(s) THEN JsonError
        ELSE IF s[p] = "\""
        THEN LET r == ParseString(s, p)
             IN  IF r.ok /\ SkipWs(s, r.next) > Len(s)
                 THEN [ok |-> TRUE, kind |-> "str", keys |-> <<>>, vals |-> <<r.val>>]
                 ELSE JsonError
        ELSE IF s[p] = "{"
        THEN LET q == SkipWs(s, p + 1)
             IN  IF q <= Len(s) /\ s[q] = "}"
                 THEN IF SkipWs(s, q + 1) > Len(s)
                      THEN [ok |-> TRUE, kind |-> "dict", keys |-> <<>>, vals |-> <<>>]
                      ELSE JsonError
                 ELSE LET m == ParseMembers(s, q, <<>>, <<>>)
                      IN  IF m.ok /\ SkipWs(s, m.next) > Len(s)
                          THEN [ok |-> TRUE, kind |-> "dict",
                                keys |-> m.keys, vals |-> m.vals]
                          ELSE JsonError
        ELSE JsonError

\* dict.get(key, default): the last member with that key wins, as in the
\* dict json.loads builds.
DictGet(meta, key, default) ==
    LET hits == {i \in 1..Len(meta.keys) : meta.keys[i] = key}
    IN  IF hits = {} THEN default
        ELSE meta.vals[CHOOSE i \in hits : \A j \in hits : j <= i]


\* ------------------------------------------------------------------ data
NoEvaluations == <<"[", "N", "o", " ", "e", "v", "a", "l", "u", "a", "t", "i", "o", "n", "s", " ", "r", "e", "c", "e", "i", "v", "e", "d", "]">>
NoOutput == <<"[", "N", "o", " ", "o", "u", "t", "p", "u", "t", " ", "f", "r", "o", "m", " ", "L", "L", "M", "]">>
Arrow == <<" ", "=", ">", " ">>
SystemPromptMissing == <<"S", "y", "s", "t", "e", "m", " ", "P", "r", "o", "m", "p", "t", " ", "M", "i", "s", "s", "i", "n", "g">>

\* Metaprompts: a JSON object with the "text" field, a truncated (invalid)
\* JSON text, a JSON object without "text", a JSON string.
MetaText == <<"{", "\"", "t", "e", "x", "t", "\"", ":", "\"", "s", "\"", "}">>
MetaBroken == <<"{", "\"", "t", "e", "x", "t", "\"", ":">>
MetaNoText == <<"{", "\"", "j", "s", "o", "n", "\"", ":", "\"", "s", "\"", "}">>

\* schemas.models.Judge
Judge(id, name, metaprompt) ==
    [id |-> id, name |-> name, model |-> <<"m">>, metaprompt |-> metaprompt]

\* The judges an assembly is made of.
JudgeCatalogue ==
    { Judge(<<"1">>, <<"A">>, MetaText),
      Judge(<<"2">>, <<"B">>, MetaBroken),
      Judge(<<"3">>, <<"C">>, MetaNoText) }

RECURSIVE SeqsUpTo(_, _)
\* The sequences over S of length at most n.
SeqsUpTo(S, n) ==
    IF n = 0 THEN {<<>>}
    ELSE LET r == SeqsUpTo(S, n - 1)
         IN  r \cup {Append(q, x) : q \in {t \in r : Len(t) = n - 1}, x \in S}

\* schemas.models.Assembly
Assemblies ==
    {[id |-> <<"a">>, judges |-> js, roles |-> <<>>] : js \in SeqsUpTo(JudgeCatalogue, MaxJudges)}

\* The prompts; the first call is given "p", a later one the same or another.
Prompts == {<<"p">>, <<"q">>}

\* ------------------------------------------------------------------ LLM
\* A response message of the chat completion agent: its items are text,
\* FunctionCallContent or FunctionResultContent; content is its text.
TextMsg(txt) == [items |-> <<"TextContent">>, content |-> txt]
FunctionCallMsg == [items |-> <<"FunctionCallContent">>, content |-> <<>>]
FunctionResultMsg == [items |-> <<"FunctionResultContent">>, content |-> <<>>]

\* What agent.invoke may yield for a chat history holding the prompt: the
\* service is opaque, the answers below quote the prompt it was sent.
Replies(prompt) ==
    { <<FunctionCallMsg, FunctionResultMsg, TextMsg(<<" ">> \o prompt \o <<"\n">>)>>,
      <<FunctionCallMsg>> }

NoReply == <<>>

\* A message carrying text together with a function call.
MixedMsg(txt) == [items |-> <<"TextContent", "FunctionCallContent">>, content |-> txt]

\* The longest answer, in messages, of the outputs below.
MaxMsgs == 2

\* The texts of the messages below: empty, blank, plain, and padded.
Contents == {<<>>, <<" ">>, <<"x">>, <<" ", "y", "\n">>}

\* Every answer agent.invoke can yield of at most MaxMsgs messages, each a
\* function-call or function-result marker, a text, or a text with a call.
Outputs ==
    SeqsUpTo({FunctionCallMsg, FunctionResultMsg, MixedMsg(<<"x">>)}
                 \cup {TextMsg(txt) : txt \in Contents}, MaxMsgs)

\* ------------------------------------------------------------------ evaluate
IsFunctionItem(item) == item \in {"FunctionCallContent", "FunctionResultContent"}

\* Variant: only a message made of function items alone is left out, and
\* every other message gives its text.
FinalContent_PureMarkers(msgs) ==
    LET keep(m) == \E k \in 1..Len(m.items) : ~IsFunctionItem(m.items[k])
        kept == SelectSeq(msgs, keep)
    IN  [k \in 1..Len(kept) |-> kept[k].content]

RECURSIVE FinalContent(_)
\* The async-for loop of ConcreteJudge.evaluate.
FinalContent(msgs) ==
    IF msgs = <<>> THEN <<>>
    ELSE LET m == Head(msgs)
         IN  IF \E k \in 1..Len(m.items) : IsFunctionItem(m.items[k])
             THEN FinalContent(Tail(msgs))
             ELSE IF Strip(m.content) # <<>>
             THEN <<m.content>> \o FinalContent(Tail(msgs))
             ELSE FinalContent(Tail(msgs))

\* Variant: the joined text is taken as it is, not stripped.
ResultStr_Untrimmed(msgs) ==
    LET r == Join(NL, FinalContent(msgs))
    IN  IF r # <<>> THEN r ELSE NoOutput

\* Variant: no marker is substituted for an empty text.
ResultStr_NoSentinel(msgs) == Strip(Join(NL, FinalContent(msgs)))

\* result_str
ResultStr(msgs) ==
    LET r == Strip(Join(NL, FinalContent(msgs)))
    IN  IF r # <<>> THEN r ELSE NoOutput

\* Variant: the judge's id is sent in both fields.
EvaluationData_IdAsName(judge_data, result_str) ==
    [judge_id |-> judge_data.id, judge_name |-> judge_data.id, result |-> result_str]

\* The data dict of the "evaluation_done" notification.
EvaluationData(judge_data, result_str) ==
    [judge_id |-> judge_data.id, judge_name |-> judge_data.name, result |-> result_str]

\* Variant: a metaprompt that does not parse is taken as an empty object.
ParseFailure_Lenient(metaprompt) ==
    LET meta == JsonLoads(metaprompt)
    IN  IF meta.ok /\ meta.kind # "dict" THEN "AttributeError" ELSE ""

\* Step 1 of evaluate: the exception it raises, or "" when it goes on.
ParseFailure(metaprompt) ==
    LET meta == JsonLoads(metaprompt)
    IN  IF ~meta.ok THEN "ValueError"
        ELSE IF meta.kind # "dict" THEN "AttributeError"
        ELSE ""

\* system_text
SystemText(metaprompt) ==
    DictGet(JsonLoads(metaprompt), <<"t", "e", "x", "t">>, SystemPromptMissing)

\* ------------------------------------------------------------------ SuperJudge
\* Variant: the new verdict is put first (insert(0, data)).
notify_Prepend(evals, event, data) ==
    IF event = "evaluation_done" THEN <<data>> \o evals ELSE evals

\* Variant: the data of any event is appended.
notify_AnyEvent(evals, event, data) == Append(evals, data)

\* Variant: the list is rebound to the new verdict alone.
notify_Replace(evals, event, data) ==
    IF event = "evaluation_done" THEN <<data>> ELSE evals

\* SuperJudge.notify on the _evaluations list.
notify(evals, event, data) ==
    IF event = "evaluation_done" THEN Append(evals, data) ELSE evals

\* Variant: the lines are joined whatever their number, without the sentinel
\* of the empty list.
final_verdict_JoinOnly(evals) ==
    Join(NL, [k \in 1..Len(evals) |->
                evals[k].judge_name \o Arrow \o evals[k].result])

\* SuperJudge.final_verdict
final_verdict(evals) ==
    IF evals = <<>> THEN NoEvaluations
    ELSE Join(NL, [k \in 1..Len(evals) |->
                     evals[k].judge_name \o Arrow \o evals[k].result])


\* ------------------------------------------------------------------ asyncio.gather
NoExc == [type |-> "", src |-> 0]

\* The gather state of a call that has not reached gather.
NoGather == [nfuts |-> 0, nfinished |-> 0, outer |-> "none", exc |-> NoExc]

\* Variant: the callback counts the child and never completes the future.
GatherDone_NeverDone(g, exc) == [g EXCEPT !.nfinished = @ + 1]

\* Variant: the future completes with the first child that ends
\* (asyncio.wait with FIRST_COMPLETED).
GatherDone_FirstCompleted(g, exc) ==
    LET n == g.nfinished + 1
    IN  IF g.outer # "pending" THEN [g EXCEPT !.nfinished = n]
        ELSE IF exc # NoExc
        THEN [g EXCEPT !.nfinished = n, !.outer = "exception", !.exc = exc]
        ELSE [g EXCEPT !.nfinished = n, !.outer = "result"]

\* Variant: return_exceptions=True, a child's exception is a result.
GatherDone_ReturnExceptions(g, exc) ==
    LET n == g.nfinished + 1
    IN  IF g.outer # "pending" THEN [g EXCEPT !.nfinished = n]
        ELSE IF n = g.nfuts
        THEN [g EXCEPT !.nfinished = n, !.outer = "result"]
        ELSE [g EXCEPT !.nfinished = n]

\* Variant: a later child's exception replaces the one already set.
GatherDone_LastException(g, exc) ==
    LET n == g.nfinished + 1
    IN  IF exc # NoExc
        THEN [g EXCEPT !.nfinished = n, !.outer = "exception", !.exc = exc]
        ELSE IF g.outer # "pending" THEN [g EXCEPT !.nfinished = n]
        ELSE IF n = g.nfuts
        THEN [g EXCEPT !.nfinished = n, !.outer = "result"]
        ELSE [g EXCEPT !.nfinished = n]

\* asyncio.gather's _done_callback for a child that finished with exception
\* exc (NoExc when it returned), return_exceptions being False.
GatherDone(g, exc) ==
    LET n == g.nfinished + 1
    IN  IF g.outer # "pending" THEN [g EXCEPT !.nfinished = n]
        ELSE IF exc # NoExc
        THEN [g EXCEPT !.nfinished = n, !.outer = "exception", !.exc = exc]
        ELSE IF n = g.nfuts
        THEN [g EXCEPT !.nfinished = n, !.outer = "result"]
        ELSE [g EXCEPT !.nfinished = n]

\* ------------------------------------------------------------------ state
\* ------------------------------------------------------------------ kernel settings
\* The service id evaluate falls back to.
Default == <<"d", "e", "f", "a", "u", "l", "t">>

\* What get_prompt_execution_settings_from_service_id gives when the kernel
\* has no settings for the service id: a value that is false under "not".
NoSettings == <<>>

\* FunctionChoiceBehavior.Auto(), and the value of the attribute before
\* evaluate assigns it.
Auto == "Auto"

Unset == "Unset"

\* The kernel is an object of the semantic_kernel library.  What the model
\* keeps of it: the service ids it has settings for, the settings' attribute
\* function_choice_behavior, and whether the lookup hands out the object the
\* kernel holds (as the MagicMock kernels of the tests do: return_value is
\* one object) or a new object on every lookup.
KernelSettings(stored, services) ==
    [stored |-> stored, services |-> services,
     function_choice_behavior |-> [sid \in services |-> Unset]]

StoredSettings == KernelSettings(TRUE, {<<"m">>, Default})

\* The kernels build_kernel can give.
Kernels ==
    { KernelSettings(st, sv) : st \in BOOLEAN, sv \in {{<<"m">>, Default}, {Default}} }

\* kernel.get_prompt_execution_settings_from_service_id(service_id): the
\* service id whose settings object is handed out, or NoSettings.
get_prompt_execution_settings_from_service_id(ks, service_id) ==
    IF service_id \in ks.services THEN service_id ELSE NoSettings

\* Step 2 of evaluate: the settings for str(judge_data.model), or for
\* "default" when that gives nothing.
ResolveSettings(ks, model) ==
    LET first == get_prompt_execution_settings_from_service_id(ks, model)
    IN  IF first = NoSettings
        THEN get_prompt_execution_settings_from_service_id(ks, Default)
        ELSE first

\* The assignment settings.function_choice_behavior = Auto() leaves the
\* kernel alone: the settings are taken to be a private copy.
SetFunctionChoice_Private(ks, sid) == ks

\* settings.function_choice_behavior = FunctionChoiceBehavior.Auto(), on the
\* object the lookup handed out: the kernel's own when it hands that out.
SetFunctionChoice(ks, sid) ==
    IF ks.stored
    THEN [ks EXCEPT !.function_choice_behavior[sid] = Auto]
    ELSE ks

\* ------------------------------------------------------------------ schemas
\* max_length of Judge.name and of Judge.metaprompt, and the longest role
\* roles_must_not_exceed_length lets through.
NameMaxLength == 16
MetapromptMaxLength == 60
RoleMaxLength == 60

Https == <<"h", "t", "t", "p", "s", ":", "/", "/">>
TextWord == <<"t", "e", "x", "t">>
JsonWord == <<"j", "s", "o", "n">>

\* n times the character x.
Repeat(x, n) == [i \in 1..n |-> x]

\* sub in s, of two strings.
Contains(s, sub) ==
    \E p \in 0..(Len(s) - Len(sub)) : SubSeq(s, p + 1, p + Len(sub)) = sub

\* s.startswith(prefix)
StartsWith(s, prefix) ==
    Len(s) >= Len(prefix) /\ SubSeq(s, 1, Len(prefix)) = prefix

\* Metaprompts of stored judges: an object with both fields, an object
\* without the "text" field that still holds the word, a JSON string
\* holding both words.
MetaFull == <<"{", "\"", "t", "e", "x", "t", "\"", ":", "\"", "s", "\"", ",", "\"", "j", "s", "o", "n", "\"", ":", "\"", "j", "\"", "}">>
MetaJsonOnly == <<"{", "\"", "j", "s", "o", "n", "\"", ":", "\"", "t", "e", "x", "t", "\"", "}">>
MetaString == <<"\"", "t", "e", "x", "t", " ", "j", "s", "o", "n", "\"">>

\* A judge document as the container stores it.
JudgeDoc(id, name, model, metaprompt) ==
    [id |-> id, name |-> name, model |-> model, metaprompt |-> metaprompt]

AzureUrl == Https \o <<"m", "/">>

\* Judge.model_must_be_azure_url
model_must_be_azure_url(v) ==
    IF ~StartsWith(v, Https) THEN {"model must be a URL from Azure Open AI"} ELSE {}

\* Judge.metaprompt_must_be_json_serializable: the text must parse, and the
\* words text and json must occur in it, wherever that is.
metaprompt_must_be_json_serializable(v) ==
    IF ~JsonLoads(v).ok THEN {"metaprompt must be JSON serializable"}
    ELSE IF ~(Contains(v, TextWord) /\ Contains(v, JsonWord))
    THEN {"metaprompt must contain the format (text, json)"}
    ELSE {}

\* The errors Judge(**doc) collects.
JudgeErrors(doc) ==
    (IF Len(doc.name) > NameMaxLength THEN {"name: string_too_long"} ELSE {})
    \cup model_must_be_azure_url(doc.model)
    \cup (IF Len(doc.metaprompt) > MetapromptMaxLength
          THEN {"metaprompt: string_too_long"}
          ELSE metaprompt_must_be_json_serializable(doc.metaprompt))

\* Assembly.roles_must_not_exceed_length
roles_must_not_exceed_length(v) ==
    IF \E k \in 1..Len(v) : Len(v[k]) > RoleMaxLength
    THEN {"each role must have at most 60 characters"}
    ELSE {}

AssemblyFields == {"id", "judges", "roles"}

\* The errors Assembly(**assembly_doc) collects; it raises ValidationError
\* when there is one.
AssemblyErrors(doc) ==
    IF ~(AssemblyFields \subseteq DOMAIN doc) THEN {"missing"}
    ELSE UNION {JudgeErrors(doc.judges[k]) : k \in 1..Len(doc.judges)}
         \cup roles_must_not_exceed_length(doc.roles)

\* Assembly(**assembly_doc) of a document without errors: the declared
\* fields, whatever else the document holds.
AssemblyOf(doc) ==
    [id |-> doc.id,
     judges |-> [k \in 1..Len(doc.judges) |->
                    [id |-> doc.judges[k].id, name |-> doc.judges[k].name,
                     model |-> doc.judges[k].model,
                     metaprompt |-> doc.judges[k].metaprompt]],
     roles |-> doc.roles]

\* ------------------------------------------------------------------ store
\* An item of the container: the fields of an Assembly and the system
\* property the database adds.
Item(id, js, roles) == [id |-> id, judges |-> js, roles |-> roles, _etag |-> <<"e">>]

\* The items the container can hold: panels that deserialize (of no judge,
\* of a judge with both fields, of a judge without "text", of a judge whose
\* metaprompt is a JSON string), and panels that do not (a metaprompt that
\* is no JSON, one without the word text, one without the word json, a
\* model that is no https URL, a name and a role that are too long, a
\* document of an id alone).
Items ==
    { Item(<<"e">>, <<>>, <<>>),
      Item(<<"a">>, <<JudgeDoc(<<"1">>, <<"A">>, AzureUrl, MetaFull)>>, <<Repeat("r", RoleMaxLength)>>),
      Item(<<"n">>, <<JudgeDoc(<<"3">>, <<"C">>, AzureUrl, MetaJsonOnly)>>, <<>>),
      Item(<<"s">>, <<JudgeDoc(<<"4">>, <<"D">>, AzureUrl, MetaString)>>, <<>>),
      Item(<<"b">>, <<JudgeDoc(<<"2">>, <<"B">>, AzureUrl, MetaBroken)>>, <<>>),
      Item(<<"o">>, <<JudgeDoc(<<"3">>, <<"C">>, AzureUrl, MetaNoText)>>, <<>>),
      Item(<<"t">>, <<JudgeDoc(<<"1">>, <<"A">>, AzureUrl, MetaText)>>, <<>>),
      Item(<<"u">>, <<JudgeDoc(<<"1">>, <<"A">>, <<"m">>, MetaFull)>>, <<>>),
      Item(<<"l">>, <<JudgeDoc(<<"1">>, Repeat("A", NameMaxLength + 1), AzureUrl, MetaFull)>>, <<>>),
      Item(<<"r">>, <<>>, <<Repeat("r", RoleMaxLength + 1)>>),
      [id |-> <<"i">>] }

\* The ids a client asks for: those of the items and one of no item.
Ids == {d.id : d \in Items} \cup {<<"z">>}

\* What fetch_assembly returns for None.
NoDocument == [none |-> TRUE]

\* The database: whether it exists, and the items of its container.
Stores == {[database |-> db, items |-> ds] : db \in BOOLEAN, ds \in {Items, {}}}

\* Variant: the item is read without looking whether the database exists.
fetch_assembly_NoDatabaseCheck(st, assembly_id) ==
    IF \E d \in Items : d.id = assembly_id
    THEN CHOOSE d \in Items : d.id = assembly_id
    ELSE NoDocument

\* fetch_assembly(assembly_id): None when database.read() or read_item
\* raises CosmosResourceNotFoundError, else the item read.
fetch_assembly(st, assembly_id) ==
    IF ~st.database THEN NoDocument
    ELSE IF \E d \in st.items : d.id = assembly_id
    THEN CHOOSE d \in st.items : d.id = assembly_id
    ELSE NoDocument

\* ------------------------------------------------------------------ responses
HTTP_200_OK == 200
HTTP_400_BAD_REQUEST == 400
HTTP_404_NOT_FOUND == 404
HTTP_500_INTERNAL_SERVER_ERROR == 500

NoContent == [assembly_id |-> <<>>, result |-> <<>>]

\* A response: its status code, and of its body the title, the detail (the
\* pieces of its text) and the content.
Response(status_code, title, detail, content) ==
    [status_code |-> status_code, title |-> title, detail |-> detail, content |-> content]

NoResponse == Response(0, "", <<>>, NoContent)

\* The exception classes the application registers a handler for, and the
\* HTTPException the framework answers itself.
ExceptionHandlers == {"RequestValidationError", "ResponseValidationError", "HTTPException"}

\* An exception leaving the endpoint: its class, and of an HTTPException
\* the status code and the detail.
Exc(type, status_code, detail) == [type |-> type, status_code |-> status_code, detail |-> detail]

\* validation_exception_handler
validation_exception_handler ==
    Response(HTTP_400_BAD_REQUEST, "Your request parameters didn't validate.",
             <<"invalid-params">>, NoContent)

\* response_exception_handler
response_exception_handler ==
    Response(HTTP_400_BAD_REQUEST, "Found Errors on processing your requests.",
             <<"invalid-params">>, NoContent)

\* The response to an exception that leaves the endpoint: that of the
\* handler registered for its class, and the server error of an exception
\* no handler is registered for.
ExceptionResponse(exc) ==
    IF exc.type \notin ExceptionHandlers
    THEN Response(HTTP_500_INTERNAL_SERVER_ERROR, "", <<"Internal Server Error">>, NoContent)
    ELSE IF exc.type = "HTTPException"
    THEN Response(exc.status_code, "", exc.detail, NoContent)
    ELSE IF exc.type = "RequestValidationError" THEN validation_exception_handler
    ELSE response_exception_handler

\* The values of JudgeEvaluation.method, and one that is none of them.
Methods == {"assembly", "super"}
PostedMethods == {"assembly", "x"}

NoRequest == [id |-> <<>>, prompt |-> <<>>, method |-> ""]

\* The bodies posted to /evaluate.
Requests == {[id |-> id, prompt |-> <<"p">>, method |-> m] : id \in Ids, m \in PostedMethods}

\* assembly_doc before fetch_assembly has returned.
NotFetched == [pending |-> TRUE]

\* str(ex) of an exception of the core.
Str(ex) == <<ex.type>>

\* The response of evaluate_judgment to what run_evaluation did.
SuccessMessage(assembly_id, verdict) ==
    Response(HTTP_200_OK, "Evaluation Complete", <<"Judging completed successfully.">>,
             [assembly_id |-> assembly_id, result |-> verdict])

VARIABLES
    assembly,      \* call -> the Assembly passed to run_evaluation
    prompt,        \* call -> the prompt passed to run_evaluation
    pc,            \* call -> where run_evaluation stands
    kernel,        \* call -> local kernel (0: unbound)
    super_judge,   \* call -> local super_judge, a SuperJudge id (0: unbound)
    sub_judges,    \* call -> local sub_judges, ConcreteJudge ids <<call, k>>
    it,            \* call -> position of the registration loop
    cj,            \* call -> the ConcreteJudge objects it created
    judges,        \* SuperJudge id -> its _judges
    evaluations,   \* SuperJudge id -> its _evaluations
    task,          \* call -> the tasks gather made, one per element of _judges
    gather,        \* call -> the state of the gather future
    ready,         \* the event loop's FIFO of callbacks to run
    cur,           \* the call whose coroutine holds the thread (0: the loop)
    report,        \* call -> the text run_evaluation returned
    error,         \* call -> the exception run_evaluation raised
    completed,     \* history: call -> its tasks in the order they ended
    sent,          \* history: call -> the notify calls its tasks made, in order
    settings,      \* kernel -> the execution settings its services hold
    last,          \* history: SuperJudge id -> the last call of one of its methods
    store,         \* the Cosmos database: whether it exists, and its items by id
    request,       \* call -> the JudgeEvaluation posted to /evaluate
    fetched,       \* call -> the endpoint's local assembly_doc
    response       \* call -> the HTTP response sent

vars == <<assembly, prompt, pc, kernel, super_judge, sub_judges, it, cj, judges,
          evaluations, task, gather, ready, cur, report, error, completed, sent,
          settings, last, store, request, fetched, response>>

\* The variables of the /evaluate endpoint.
http == <<store, request, fetched, response>>

SJIds == Calls

\* The entry of `last`: the number of method calls the SuperJudge has had,
\* the latest of them with the evaluator registered, the event and data
\* notified, the prompt evaluated or the text final_verdict returned, and
\* the method called before it.
NoData == [judge_id |-> <<>>, judge_name |-> <<>>, result |-> <<>>]

NoOp ==
    [n |-> 0, op |-> "", before |-> "", judge |-> <<0, 0>>, event |-> "", data |-> NoData,
     text |-> <<>>]

Op(prev, op, judge, event, data, text) ==
    [n |-> prev.n + 1, op |-> op, before |-> prev.op, judge |-> judge, event |-> event,
     data |-> data, text |-> text]

Handle(k, c, i) == [k |-> k, c |-> c, i |-> i]

\* The ConcreteJudge object with id e.
Obj(e) == cj[e[1]][e[2]]

\* No request has been posted.
NoRequests ==
    /\ request = [c \in Calls |-> NoRequest]
    /\ fetched = [c \in Calls |-> NotFetched]
    /\ response = [c \in Calls |-> NoResponse]

RECURSIVE TotalJudges(_, _)
\* The number of judges of the assemblies asm[c], c in cs.
TotalJudges(asm, cs) ==
    IF cs = {} THEN 0
    ELSE LET c == CHOOSE x \in cs : TRUE
         IN  Len(asm[c].judges) + TotalJudges(asm, cs \ {c})

Init ==
    /\ assembly \in {a \in [Calls -> Assemblies] : TotalJudges(a, Calls) <= MaxJudges}
    /\ prompt \in {f \in [Calls -> Prompts] : f[1] = <<"p">>}
    /\ pc = [c \in Calls |-> "idle"]
    /\ kernel = [c \in Calls |-> 0]
    /\ super_judge = [c \in Calls |-> 0]
    /\ sub_judges = [c \in Calls |-> <<>>]
    /\ it = [c \in Calls |-> 0]
    /\ cj = [c \in Calls |-> <<>>]
    /\ judges = [k \in SJIds |-> <<>>]
    /\ evaluations = [k \in SJIds |-> <<>>]
    /\ task = [c \in Calls |-> <<>>]
    /\ gather = [c \in Calls |-> NoGather]
    /\ ready = <<>>
    /\ cur = 0
    /\ report = [c \in Calls |-> None]
    /\ error = [c \in Calls |-> NoExc]
    /\ completed = [c \in Calls |-> <<>>]
    /\ sent = [c \in Calls |-> <<>>]
    /\ settings = [k \in Calls |-> StoredSettings]
    /\ last = [k \in SJIds |-> NoOp]
    /\ store = [database |-> TRUE, items |-> Items]
    /\ NoRequests

\* ------------------------------------------------------------------ run_evaluation
\* The boundary awaits run_evaluation(assembly, prompt): the request's
\* coroutine is queued on the loop.  Calls are numbered as they arrive.
Arrive(c) ==
    /\ cur = 0
    /\ pc[c] = "idle"
    /\ \A d \in Calls : d < c => pc[d] # "idle"
    /\ pc' = [pc EXCEPT ![c] = "scheduled"]
    /\ ready' = Append(ready, Handle("call", c, 0))
    /\ UNCHANGED <<http, assembly, prompt, kernel, super_judge, sub_judges, it, cj, judges,
                   evaluations, task, gather, cur, report, error, completed, sent,
                   settings, last>>

\* JudgeFactory.build_kernel: a kernel of the call's own.
build_kernel(c) == c

\* 1) kernel = JudgeFactory.build_kernel()
BuildKernel(c) ==
    /\ cur = 0
    /\ ready # <<>> /\ Head(ready) = Handle("call", c, 0)
    /\ ready' = Tail(ready)
    /\ cur' = c
    /\ kernel' = [kernel EXCEPT ![c] = build_kernel(c)]
    /\ pc' = [pc EXCEPT ![c] = "super_judge"]
    /\ UNCHANGED <<http, assembly, prompt, super_judge, sub_judges, it, cj, judges,
                   evaluations, task, gather, report, error, completed, sent,
                   settings, last>>

\* Variant: one SuperJudge instance serves every call.
SuperJudge_Shared(c) == 1

\* SuperJudge(...): the constructor makes an object of the call's own.
SuperJudge(c) == c

\* 2) super_judge = SuperJudge(kernel=kernel, name=...)
NewSuperJudge(c) ==
    /\ cur = c /\ pc[c] = "super_judge"
    /\ LET k == SuperJudge(c)
       IN  /\ super_judge' = [super_judge EXCEPT ![c] = k]
           /\ judges' = [judges EXCEPT ![k] = <<>>]
           /\ evaluations' = [evaluations EXCEPT ![k] = <<>>]
    /\ pc' = [pc EXCEPT ![c] = "create_judges"]
    /\ UNCHANGED <<http, assembly, prompt, kernel, sub_judges, it, cj, task, gather,
                   ready, cur, report, error, completed, sent,
                   settings, last>>

\* JudgeFactory.create_judges with ConcreteJudge.__init__
create_judges(asm, k) ==
    [i \in 1..Len(asm.judges) |->
        [judge_data |-> asm.judges[i], kernel |-> k, mediator |-> 0]]

\* 3) sub_judges = JudgeFactory.create_judges(assembly, kernel=kernel)
CreateJudges(c) ==
    /\ cur = c /\ pc[c] = "create_judges"
    /\ cj' = [cj EXCEPT ![c] = create_judges(assembly[c], kernel[c])]
    /\ sub_judges' = [sub_judges EXCEPT ![c] = [i \in 1..Len(assembly[c].judges) |-> <<c, i>>]]
    /\ it' = [it EXCEPT ![c] = 1]
    /\ pc' = [pc EXCEPT ![c] = "register"]
    /\ UNCHANGED <<http, assembly, prompt, kernel, super_judge, judges, evaluations, task,
                   gather, ready, cur, report, error, completed, sent,
                   settings, last>>

\* 4) for j in sub_judges: super_judge.register_judge(j)
RegisterJudge(c) ==
    /\ cur = c /\ pc[c] = "register"
    /\ it[c] <= Len(sub_judges[c])
    /\ LET k == super_judge[c]
           e == sub_judges[c][it[c]]
       IN  /\ judges' = [judges EXCEPT ![k] = Append(@, e)]
           /\ cj' = [cj EXCEPT ![e[1]][e[2]].mediator = k]
           /\ last' = [last EXCEPT ![k] = Op(@, "register_judge", e, "", NoData, <<>>)]
    /\ it' = [it EXCEPT ![c] = @ + 1]
    /\ UNCHANGED <<http, assembly, prompt, pc, kernel, super_judge, sub_judges, evaluations,
                   task, gather, ready, cur, report, error, completed, sent,
                   settings>>

\* Variant: the registration loop may be left before its last element.
RegisterDone_Early(c) ==
    /\ cur = c /\ pc[c] = "register"
    /\ pc' = [pc EXCEPT ![c] = "evaluate"]
    /\ UNCHANGED <<http, assembly, prompt, kernel, super_judge, sub_judges, it, cj, judges,
                   evaluations, task, gather, ready, cur, report, error, completed, sent,
                   settings, last>>

\* The loop of step 4 is over.
RegisterDone(c) ==
    /\ cur = c /\ pc[c] = "register"
    /\ it[c] > Len(sub_judges[c])
    /\ pc' = [pc EXCEPT ![c] = "evaluate"]
    /\ UNCHANGED <<http, assembly, prompt, kernel, super_judge, sub_judges, it, cj, judges,
                   evaluations, task, gather, ready, cur, report, error, completed, sent,
                   settings, last>>

\* The task of one j.evaluate(prompt): the evaluator, the prompt it was
\* called with, and the locals of evaluate.
NewTask(e, p) ==
    [judge |-> e, prompt |-> p, pc |-> "created", instructions |-> <<>>,
     arguments |-> Unset, reply |-> NoReply, exc |-> NoExc]

\* 5) await super_judge.evaluate(prompt): SuperJudge.evaluate makes the plan
\* and run_plan gathers j.evaluate(prompt) for j in _judges.  gather wraps
\* each coroutine in a task, queued in the order of _judges, and the call
\* suspends on the gather future; with no judge the future is done at once
\* and the call goes on without suspending.
Evaluate(c) ==
    /\ cur = c /\ pc[c] = "evaluate"
    /\ LET js == judges[super_judge[c]]
           n  == Len(js)
       IN  /\ task' = [task EXCEPT ![c] = [i \in 1..n |-> NewTask(js[i], prompt[c])]]
           /\ ready' = ready \o [i \in 1..n |-> Handle("task", c, i)]
           /\ IF n = 0
              THEN /\ gather' = [gather EXCEPT ![c] =
                          [nfuts |-> 0, nfinished |-> 0, outer |-> "result", exc |-> NoExc]]
                   /\ pc' = [pc EXCEPT ![c] = "final_verdict"]
                   /\ cur' = c
              ELSE /\ gather' = [gather EXCEPT ![c] =
                          [nfuts |-> n, nfinished |-> 0, outer |-> "pending", exc |-> NoExc]]
                   /\ pc' = [pc EXCEPT ![c] = "awaiting"]
                   /\ cur' = 0
    /\ last' = [last EXCEPT ![super_judge[c]] =
                    Op(@, "evaluate", <<0, 0>>, "", NoData, prompt[c])]
    /\ UNCHANGED <<http, assembly, prompt, kernel, super_judge, sub_judges, it, cj, judges,
                   evaluations, report, error, completed, sent,
                   settings>>

\* The gather future is done and the loop resumes run_plan: an exception
\* goes up through run_plan, SuperJudge.evaluate and run_evaluation;
\* otherwise run_plan returns and run_evaluation goes on to step 6.
Wake(c) ==
    /\ cur = 0
    /\ ready # <<>> /\ Head(ready) = Handle("wake", c, 0)
    /\ ready' = Tail(ready)
    /\ IF gather[c].outer = "exception"
       THEN /\ pc' = [pc EXCEPT ![c] = "raised"]
            /\ error' = [error EXCEPT ![c] = gather[c].exc]
            /\ cur' = 0
       ELSE /\ pc' = [pc EXCEPT ![c] = "final_verdict"]
            /\ error' = error
            /\ cur' = c
    /\ UNCHANGED <<http, assembly, prompt, kernel, super_judge, sub_judges, it, cj, judges,
                   evaluations, task, gather, report, completed, sent,
                   settings, last>>

\* 6) return super_judge.final_verdict()
FinalVerdict(c) ==
    /\ cur = c /\ pc[c] = "final_verdict"
    /\ report' = [report EXCEPT ![c] = final_verdict(evaluations[super_judge[c]])]
    /\ last' = [last EXCEPT ![super_judge[c]] =
                    Op(@, "final_verdict", <<0, 0>>, "", NoData, report'[c])]
    /\ pc' = [pc EXCEPT ![c] = "returned"]
    /\ cur' = 0
    /\ UNCHANGED <<http, assembly, prompt, kernel, super_judge, sub_judges, it, cj, judges,
                   evaluations, task, gather, ready, error, completed, sent,
                   settings>>


\* ------------------------------------------------------------------ ConcreteJudge.evaluate
\* The loop runs the task of child i of call c for the first time:
\* evaluate parses the metaprompt (step 1) and either raises, which ends
\* the task, or takes the settings from the kernel and builds the agent
\* with system_text as its instructions (steps 2 and 3, on objects of the
\* semantic_kernel library) and suspends in agent.invoke (step 4).
TaskStart(c, i) ==
    /\ cur = 0
    /\ ready # <<>> /\ Head(ready) = Handle("task", c, i)
    /\ task[c][i].pc = "created"
    /\ LET jd  == Obj(task[c][i].judge).judge_data
           f   == ParseFailure(jd.metaprompt)
           k   == Obj(task[c][i].judge).kernel
           sid == ResolveSettings(settings[k], jd.model)
       IN  IF f # ""
           THEN /\ task' = [task EXCEPT ![c][i].pc = "failed",
                                        ![c][i].exc = [type |-> f, src |-> i]]
                /\ ready' = Append(Tail(ready), Handle("done", c, i))
                /\ completed' = [completed EXCEPT ![c] = Append(@, i)]
                /\ settings' = settings
           ELSE /\ task' = [task EXCEPT ![c][i].pc = "invoking",
                                        ![c][i].instructions = SystemText(jd.metaprompt),
                                        ![c][i].arguments = Auto]
                /\ ready' = Tail(ready)
                /\ completed' = completed
                /\ settings' = [settings EXCEPT ![k] = SetFunctionChoice(@, sid)]
    /\ UNCHANGED <<http, assembly, prompt, pc, kernel, super_judge, sub_judges, it, cj, judges,
                   evaluations, gather, cur, report, error, sent, last>>

\* The service answers the chat of child i: its messages are ready and the
\* task is queued to resume.
LLMReply(c, i, msgs) ==
    /\ cur = 0
    /\ task[c][i].pc = "invoking"
    /\ task' = [task EXCEPT ![c][i].pc = "resumable", ![c][i].reply = msgs]
    /\ ready' = Append(ready, Handle("task", c, i))
    /\ UNCHANGED <<http, assembly, prompt, pc, kernel, super_judge, sub_judges, it, cj, judges,
                   evaluations, gather, cur, report, error, completed, sent,
                   settings, last>>

\* The call to the service fails (network, authentication, rate limit).
LLMError(c, i) ==
    /\ cur = 0
    /\ task[c][i].pc = "invoking"
    /\ task' = [task EXCEPT ![c][i].pc = "resumable",
                            ![c][i].exc = [type |-> "ServiceError", src |-> i]]
    /\ ready' = Append(ready, Handle("task", c, i))
    /\ UNCHANGED <<http, assembly, prompt, pc, kernel, super_judge, sub_judges, it, cj, judges,
                   evaluations, gather, cur, report, error, completed, sent,
                   settings, last>>

\* Variant: evaluate notifies its mediator without looking whether it has
\* one, and fails on None.
TaskResume_NoGuard(c, i) ==
    /\ cur = 0
    /\ ready # <<>> /\ Head(ready) = Handle("task", c, i)
    /\ task[c][i].pc = "resumable"
    /\ ready' = Append(Tail(ready), Handle("done", c, i))
    /\ completed' = [completed EXCEPT ![c] = Append(@, i)]
    /\ IF task[c][i].exc # NoExc
       THEN /\ task' = [task EXCEPT ![c][i].pc = "failed"]
            /\ evaluations' = evaluations
            /\ sent' = sent
            /\ last' = last
       ELSE LET self == Obj(task[c][i].judge)
                result_str == ResultStr(task[c][i].reply)
                data == EvaluationData(self.judge_data, result_str)
            IN  IF self.mediator # 0
                THEN /\ task' = [task EXCEPT ![c][i].pc = "done"]
                     /\ evaluations' = [evaluations EXCEPT ![self.mediator] =
                                            notify(@, "evaluation_done", data)]
                     /\ sent' = [sent EXCEPT ![c] = Append(@,
                                    [sender |-> task[c][i].judge, to |-> self.mediator,
                                     event |-> "evaluation_done", data |-> data])]
                     /\ last' = [last EXCEPT ![self.mediator] =
                                     Op(@, "notify", task[c][i].judge,
                                        "evaluation_done", data, <<>>)]
                ELSE /\ task' = [task EXCEPT ![c][i].pc = "failed",
                                             ![c][i].exc = [type |-> "AttributeError", src |-> i]]
                     /\ evaluations' = evaluations
                     /\ sent' = sent
                     /\ last' = last
    /\ UNCHANGED <<http, assembly, prompt, pc, kernel, super_judge, sub_judges, it, cj, judges,
                   gather, cur, report, error,
                   settings>>

\* The loop resumes the task of child i: agent.invoke raises, which ends
\* the task, or evaluate collects the messages, computes result_str and
\* notifies the mediator when it has one, and returns.
TaskResume(c, i) ==
    /\ cur = 0
    /\ ready # <<>> /\ Head(ready) = Handle("task", c, i)
    /\ task[c][i].pc = "resumable"
    /\ ready' = Append(Tail(ready), Handle("done", c, i))
    /\ completed' = [completed EXCEPT ![c] = Append(@, i)]
    /\ IF task[c][i].exc # NoExc
       THEN /\ task' = [task EXCEPT ![c][i].pc = "failed"]
            /\ evaluations' = evaluations
            /\ sent' = sent
            /\ last' = last
       ELSE LET self == Obj(task[c][i].judge)
                result_str == ResultStr(task[c][i].reply)
                data == EvaluationData(self.judge_data, result_str)
            IN  /\ task' = [task EXCEPT ![c][i].pc = "done"]
                /\ IF self.mediator # 0
                   THEN /\ evaluations' = [evaluations EXCEPT ![self.mediator] =
                                               notify(@, "evaluation_done", data)]
                        /\ sent' = [sent EXCEPT ![c] = Append(@,
                                       [sender |-> task[c][i].judge, to |-> self.mediator,
                                        event |-> "evaluation_done", data |-> data])]
                        /\ last' = [last EXCEPT ![self.mediator] =
                                        Op(@, "notify", task[c][i].judge,
                                           "evaluation_done", data, <<>>)]
                   ELSE /\ evaluations' = evaluations
                        /\ sent' = sent
                        /\ last' = last
    /\ UNCHANGED <<http, assembly, prompt, pc, kernel, super_judge, sub_judges, it, cj, judges,
                   gather, cur, report, error,
                   settings>>

\* Variant: when a child's exception completes the future, the children
\* still pending are cancelled (the behaviour of asyncio.TaskGroup).
DoneCallback_CancelSiblings(c, i) ==
    /\ cur = 0
    /\ ready # <<>> /\ Head(ready) = Handle("done", c, i)
    /\ LET g == GatherDone(gather[c], task[c][i].exc)
           fails == gather[c].outer = "pending" /\ g.outer = "exception"
           live(h) == ~(h.k = "task" /\ h.c = c)
       IN  /\ gather' = [gather EXCEPT ![c] = g]
           /\ IF gather[c].outer = "pending" /\ g.outer # "pending"
              THEN ready' = Append(IF fails THEN SelectSeq(Tail(ready), live) ELSE Tail(ready),
                                   Handle("wake", c, 0))
              ELSE ready' = Tail(ready)
           /\ IF fails
              THEN task' = [task EXCEPT ![c] = [j \in 1..Len(task[c]) |->
                               IF task[c][j].pc \in {"done", "failed"} THEN task[c][j]
                               ELSE [task[c][j] EXCEPT !.pc = "cancelled"]]]
              ELSE task' = task
    /\ UNCHANGED <<http, assembly, prompt, pc, kernel, super_judge, sub_judges, it, cj, judges,
                   evaluations, cur, report, error, completed, sent,
                   settings, last>>

\* The loop runs gather's _done_callback for child i; when the callback
\* completes the gather future, run_plan is queued to resume.
DoneCallback(c, i) ==
    /\ cur = 0
    /\ ready # <<>> /\ Head(ready) = Handle("done", c, i)
    /\ LET g == GatherDone(gather[c], task[c][i].exc)
       IN  /\ gather' = [gather EXCEPT ![c] = g]
           /\ IF gather[c].outer = "pending" /\ g.outer # "pending"
              THEN ready' = Append(Tail(ready), Handle("wake", c, 0))
              ELSE ready' = Tail(ready)
    /\ UNCHANGED <<http, assembly, prompt, pc, kernel, super_judge, sub_judges, it, cj, judges,
                   evaluations, task, cur, report, error, completed, sent,
                   settings, last>>

\* ------------------------------------------------------------------ specification
Next ==
    \/ \E c \in Calls : Arrive(c)
    \/ \E c \in Calls : BuildKernel(c)
    \/ \E c \in Calls : NewSuperJudge(c)
    \/ \E c \in Calls : CreateJudges(c)
    \/ \E c \in Calls : RegisterJudge(c)
    \/ \E c \in Calls : RegisterDone(c)
    \/ \E c \in Calls : Evaluate(c)
    \/ \E c \in Calls : Wake(c)
    \/ \E c \in Calls : FinalVerdict(c)
    \/ \E c \in Calls : \E i \in 1..Len(task[c]) : TaskStart(c, i)
    \/ \E c \in Calls : \E i \in 1..Len(task[c]) : \E msgs \in Replies(task[c][i].prompt) : LLMReply(c, i, msgs)
    \/ \E c \in Calls : \E i \in 1..Len(task[c]) : LLMError(c, i)
    \/ \E c \in Calls : \E i \in 1..Len(task[c]) : TaskResume(c, i)
    \/ \E c \in Calls : \E i \in 1..Len(task[c]) : DoneCallback(c, i)

Spec == Init /\ [][Next]_vars


\* ------------------------------------------------------------------ one judge, any output
\* The first call has a panel of one judge and the second an empty panel;
\* the service answers with any of Outputs.
InitEval ==
    /\ Init
    /\ Len(assembly[1].judges) = 1
    /\ assembly[2].judges = <<>>

NextEval ==
    \/ \E c \in Calls : Arrive(c)
    \/ \E c \in Calls : BuildKernel(c)
    \/ \E c \in Calls : NewSuperJudge(c)
    \/ \E c \in Calls : CreateJudges(c)
    \/ \E c \in Calls : RegisterJudge(c)
    \/ \E c \in Calls : RegisterDone(c)
    \/ \E c \in Calls : Evaluate(c)
    \/ \E c \in Calls : Wake(c)
    \/ \E c \in Calls : FinalVerdict(c)
    \/ \E c \in Calls : \E i \in 1..Len(task[c]) : TaskStart(c, i)
    \/ \E c \in Calls : \E i \in 1..Len(task[c]) : \E msgs \in Outputs : LLMReply(c, i, msgs)
    \/ \E c \in Calls : \E i \in 1..Len(task[c]) : LLMError(c, i)
    \/ \E c \in Calls : \E i \in 1..Len(task[c]) : TaskResume(c, i)
    \/ \E c \in Calls : \E i \in 1..Len(task[c]) : DoneCallback(c, i)

SpecEval == InitEval /\ [][NextEval]_vars

\* ------------------------------------------------------------------ the classes used directly
\* SuperJudge and ConcreteJudge used as the tests use them: an owner holds
\* SuperJudge c and the evaluators of Pool, and calls register_judge,
\* notify, final_verdict and evaluate in any order.

\* How many method calls the SuperJudges have had, all together, when an
\* owner makes its last.
MaxOps == 5

\* The evaluators the owners share: ConcreteJudge objects 1 and 2 of cj[1].
\* A SuperJudge gets as many registrations as there are evaluators, so one
\* evaluator twice or each once.
Pool == <<Judge(<<"1">>, <<"A">>, MetaText), Judge(<<"3">>, <<"C">>, MetaNoText)>>

PoolIds == {<<1, i>> : i \in 1..Len(Pool)}

\* The events an owner notifies: the one notify knows and another.
Events == {"evaluation_done", "evaluation_started"}

\* The data an owner notifies.
DirectData == [judge_id |-> <<"9">>, judge_name |-> <<"Z">>, result |-> <<"r">>]

InitDirect ==
    /\ assembly = [c \in Calls |-> [id |-> <<"a">>, judges |-> <<>>, roles |-> <<>>]]
    /\ prompt = [c \in Calls |-> <<"p">>]
    /\ pc = [c \in Calls |-> "idle"]
    /\ kernel = [c \in Calls |-> 1]
    /\ super_judge = [c \in Calls |-> SuperJudge(c)]
    /\ sub_judges = [c \in Calls |-> <<>>]
    /\ it = [c \in Calls |-> 0]
    /\ cj = [c \in Calls |->
                IF c = 1
                THEN [i \in 1..Len(Pool) |-> [judge_data |-> Pool[i], kernel |-> 1, mediator |-> 0]]
                ELSE <<>>]
    /\ judges = [k \in SJIds |-> <<>>]
    /\ evaluations = [k \in SJIds |-> <<>>]
    /\ task = [c \in Calls |-> <<>>]
    /\ gather = [c \in Calls |-> NoGather]
    /\ ready = <<>>
    /\ cur = 0
    /\ report = [c \in Calls |-> None]
    /\ error = [c \in Calls |-> NoExc]
    /\ completed = [c \in Calls |-> <<>>]
    /\ sent = [c \in Calls |-> <<>>]
    /\ settings = [k \in Calls |-> StoredSettings]
    /\ last = [k \in SJIds |-> NoOp]
    /\ store = [database |-> TRUE, items |-> Items]
    /\ NoRequests

\* The owners may call another method.
MoreOps == last[1].n + last[2].n < MaxOps

\* Owner c is not awaiting and nothing of its last run is left on the loop.
AtRest(c) ==
    /\ cur = 0
    /\ pc[c] \in {"idle", "returned", "raised"}
    /\ \A i \in 1..Len(task[c]) : task[c][i].pc \in {"done", "failed"}
    /\ \A k \in 1..Len(ready) : ready[k].c # c

\* Variant: an evaluator that has a mediator keeps it.
DRegister_KeepMediator(c, e) ==
    /\ AtRest(c) /\ MoreOps
    /\ Len(judges[c]) < Len(Pool)
    /\ judges' = [judges EXCEPT ![c] = Append(@, e)]
    /\ cj' = [cj EXCEPT ![e[1]][e[2]].mediator = IF @ # 0 THEN @ ELSE c]
    /\ last' = [last EXCEPT ![c] = Op(@, "register_judge", e, "", NoData, <<>>)]
    /\ UNCHANGED <<http, assembly, prompt, pc, kernel, super_judge, sub_judges, it, evaluations,
                   task, gather, ready, cur, report, error, completed, sent, settings>>

\* Variant: an evaluator already in _judges is not added again.
DRegister_Dedup(c, e) ==
    /\ AtRest(c) /\ MoreOps
    /\ Len(judges[c]) < Len(Pool)
    /\ judges' = [judges EXCEPT ![c] =
                      IF \E k \in 1..Len(@) : @[k] = e THEN @ ELSE Append(@, e)]
    /\ cj' = [cj EXCEPT ![e[1]][e[2]].mediator = c]
    /\ last' = [last EXCEPT ![c] = Op(@, "register_judge", e, "", NoData, <<>>)]
    /\ UNCHANGED <<http, assembly, prompt, pc, kernel, super_judge, sub_judges, it, evaluations,
                   task, gather, ready, cur, report, error, completed, sent, settings>>

\* super_judge.register_judge(e)
DRegister(c, e) ==
    /\ AtRest(c) /\ MoreOps
    /\ Len(judges[c]) < Len(Pool)
    /\ judges' = [judges EXCEPT ![c] = Append(@, e)]
    /\ cj' = [cj EXCEPT ![e[1]][e[2]].mediator = c]
    /\ last' = [last EXCEPT ![c] = Op(@, "register_judge", e, "", NoData, <<>>)]
    /\ UNCHANGED <<http, assembly, prompt, pc, kernel, super_judge, sub_judges, it, evaluations,
                   task, gather, ready, cur, report, error, completed, sent, settings>>

\* super_judge.notify(sender, event, data), called by the owner
DNotify(c, event, data) ==
    /\ AtRest(c) /\ MoreOps
    /\ evaluations' = [evaluations EXCEPT ![c] = notify(@, event, data)]
    /\ last' = [last EXCEPT ![c] = Op(@, "notify", <<0, 0>>, event, data, <<>>)]
    /\ UNCHANGED <<http, assembly, prompt, pc, kernel, super_judge, sub_judges, it, cj, judges,
                   task, gather, ready, cur, report, error, completed, sent, settings>>

\* Variant: final_verdict empties the list it has rendered.
DReport_Drain(c) ==
    /\ AtRest(c) /\ MoreOps
    /\ report' = [report EXCEPT ![c] = final_verdict(evaluations[c])]
    /\ evaluations' = [evaluations EXCEPT ![c] = <<>>]
    /\ last' = [last EXCEPT ![c] = Op(@, "final_verdict", <<0, 0>>, "", NoData, report'[c])]
    /\ UNCHANGED <<http, assembly, prompt, pc, kernel, super_judge, sub_judges, it, cj, judges,
                   task, gather, ready, cur, error, completed, sent, settings>>

\* super_judge.final_verdict(), called by the owner
DReport(c) ==
    /\ AtRest(c) /\ MoreOps
    /\ report' = [report EXCEPT ![c] = final_verdict(evaluations[c])]
    /\ last' = [last EXCEPT ![c] = Op(@, "final_verdict", <<0, 0>>, "", NoData, report'[c])]
    /\ UNCHANGED <<http, assembly, prompt, pc, kernel, super_judge, sub_judges, it, cj, judges,
                   evaluations, task, gather, ready, cur, error, completed, sent, settings>>

\* Variant: a run starts from an empty verdict list.
DRun_Reset(c, p) ==
    /\ \A d \in Calls : AtRest(d)
    /\ MoreOps
    /\ prompt' = [prompt EXCEPT ![c] = p]
    /\ pc' = [pc EXCEPT ![c] = "evaluate"]
    /\ cur' = c
    /\ error' = [error EXCEPT ![c] = NoExc]
    /\ completed' = [completed EXCEPT ![c] = <<>>]
    /\ sent' = [sent EXCEPT ![c] = <<>>]
    /\ task' = [task EXCEPT ![c] = <<>>]
    /\ gather' = [gather EXCEPT ![c] = NoGather]
    /\ evaluations' = [evaluations EXCEPT ![super_judge[c]] = <<>>]
    /\ UNCHANGED <<http, assembly, kernel, super_judge, sub_judges, it, cj, judges,
                   ready, report, settings, last>>

\* await super_judge.evaluate(p), then final_verdict as run_evaluation does:
\* the owner goes on as a call at step 5, the tasks and the histories of
\* its earlier run dropped.  One owner awaits at a time.
DRun(c, p) ==
    /\ \A d \in Calls : AtRest(d)
    /\ MoreOps
    /\ prompt' = [prompt EXCEPT ![c] = p]
    /\ pc' = [pc EXCEPT ![c] = "evaluate"]
    /\ cur' = c
    /\ error' = [error EXCEPT ![c] = NoExc]
    /\ completed' = [completed EXCEPT ![c] = <<>>]
    /\ sent' = [sent EXCEPT ![c] = <<>>]
    /\ task' = [task EXCEPT ![c] = <<>>]
    /\ gather' = [gather EXCEPT ![c] = NoGather]
    /\ UNCHANGED <<http, assembly, kernel, super_judge, sub_judges, it, cj, judges, evaluations,
                   ready, report, settings, last>>

NextDirect ==
    \/ \E c \in Calls : \E e \in PoolIds : DRegister(c, e)
    \/ \E event \in Events : DNotify(1, event, DirectData)
    \/ \E c \in Calls : DReport(c)
    \/ \E p \in Prompts : DRun(1, p)
    \/ \E c \in Calls : Evaluate(c)
    \/ \E c \in Calls : Wake(c)
    \/ \E c \in Calls : FinalVerdict(c)
    \/ \E c \in Calls : \E i \in 1..Len(task[c]) : TaskStart(c, i)
    \/ \E c \in Calls : \E i \in 1..Len(task[c]) : \E msgs \in Replies(task[c][i].prompt) : LLMReply(c, i, msgs)
    \/ \E c \in Calls : \E i \in 1..Len(task[c]) : LLMError(c, i)
    \/ \E c \in Calls : \E i \in 1..Len(task[c]) : TaskResume(c, i)
    \/ \E c \in Calls : \E i \in 1..Len(task[c]) : DoneCallback(c, i)

SpecDirect == InitDirect /\ [][NextDirect]_vars


\* ------------------------------------------------------------------ an evaluator on its own
\* Each owner holds one ConcreteJudge, made with any judge of the catalogue
\* and either left without a mediator or bound to a SuperJudge, and awaits
\* its evaluate once.
InitAlone ==
    /\ assembly = [c \in Calls |-> [id |-> <<"a">>, judges |-> <<>>, roles |-> <<>>]]
    /\ prompt = [c \in Calls |-> <<"p">>]
    /\ pc = [c \in Calls |-> "idle"]
    /\ kernel = [c \in Calls |-> 1]
    /\ super_judge = [c \in Calls |-> SuperJudge(c)]
    /\ sub_judges = [c \in Calls |-> <<>>]
    /\ it = [c \in Calls |-> 0]
    /\ cj \in [Calls -> {<<[judge_data |-> j, kernel |-> 1, mediator |-> m]>> :
                            j \in JudgeCatalogue, m \in {0} \cup SJIds}]
    /\ judges = [k \in SJIds |-> <<>>]
    /\ evaluations = [k \in SJIds |-> <<>>]
    /\ task = [c \in Calls |-> <<>>]
    /\ gather = [c \in Calls |-> NoGather]
    /\ ready = <<>>
    /\ cur = 0
    /\ report = [c \in Calls |-> None]
    /\ error = [c \in Calls |-> NoExc]
    /\ completed = [c \in Calls |-> <<>>]
    /\ sent = [c \in Calls |-> <<>>]
    /\ settings = [k \in Calls |-> StoredSettings]
    /\ last = [k \in SJIds |-> NoOp]
    /\ store = [database |-> TRUE, items |-> Items]
    /\ NoRequests

\* await judge.evaluate(p) by owner c on its evaluator, awaited as run_plan
\* awaits an evaluate: as a task of the loop the owner is resumed after;
\* the owner then reads final_verdict of SuperJudge c.
DEvaluate(c, p) ==
    /\ cur = 0 /\ pc[c] = "idle"
    /\ prompt' = [prompt EXCEPT ![c] = p]
    /\ task' = [task EXCEPT ![c] = <<NewTask(<<c, 1>>, p)>>]
    /\ gather' = [gather EXCEPT ![c] =
                      [nfuts |-> 1, nfinished |-> 0, outer |-> "pending", exc |-> NoExc]]
    /\ ready' = Append(ready, Handle("task", c, 1))
    /\ pc' = [pc EXCEPT ![c] = "awaiting"]
    /\ UNCHANGED <<http, assembly, kernel, super_judge, sub_judges, it, cj, judges, evaluations,
                   cur, report, error, completed, sent, settings, last>>

NextAlone ==
    \/ \E c \in Calls : \E p \in Prompts : DEvaluate(c, p)
    \/ \E c \in Calls : Wake(c)
    \/ \E c \in Calls : FinalVerdict(c)
    \/ \E c \in Calls : \E i \in 1..Len(task[c]) : TaskStart(c, i)
    \/ \E c \in Calls : \E i \in 1..Len(task[c]) : \E msgs \in Replies(task[c][i].prompt) : LLMReply(c, i, msgs)
    \/ \E c \in Calls : \E i \in 1..Len(task[c]) : LLMError(c, i)
    \/ \E c \in Calls : \E i \in 1..Len(task[c]) : TaskResume(c, i)
    \/ \E c \in Calls : \E i \in 1..Len(task[c]) : DoneCallback(c, i)

SpecAlone == InitAlone /\ [][NextAlone]_vars


\* ------------------------------------------------------------------ a fair loop and service
\* The first call has an empty panel, the second any panel.
InitLive ==
    /\ Init
    /\ assembly[1].judges = <<>>

\* A step of the event loop: it runs the callback at the head of its queue,
\* or the coroutine it has resumed runs on to its next await.
LoopStep ==
    \/ \E c \in Calls : BuildKernel(c)
    \/ \E c \in Calls : NewSuperJudge(c)
    \/ \E c \in Calls : CreateJudges(c)
    \/ \E c \in Calls : RegisterJudge(c)
    \/ \E c \in Calls : RegisterDone(c)
    \/ \E c \in Calls : Evaluate(c)
    \/ \E c \in Calls : Wake(c)
    \/ \E c \in Calls : FinalVerdict(c)
    \/ \E c \in Calls : \E i \in 1..Len(task[c]) : TaskStart(c, i)
    \/ \E c \in Calls : \E i \in 1..Len(task[c]) : TaskResume(c, i)
    \/ \E c \in Calls : \E i \in 1..Len(task[c]) : DoneCallback(c, i)

\* The call to the service of task i of call c completes or fails.
Completes(c, i) ==
    /\ i <= Len(task[c])
    /\ \/ \E msgs \in Replies(task[c][i].prompt) : LLMReply(c, i, msgs)
       \/ LLMError(c, i)

\* The loop has something to run: a coroutine it has resumed, or a callback
\* in its queue.  This is when LoopStep is enabled.
LoopBusy == cur # 0 \/ ready # <<>>

\* The loop goes on while it has something to run (asyncio's run loop: weak
\* fairness of LoopStep, written with its enabling condition), and every
\* call to the service completes or fails in the end.
SpecLive ==
    /\ InitLive /\ [][Next]_vars
    /\ ([]<>(~LoopBusy) \/ []<><<LoopStep>>_vars)
    /\ \A c \in Calls : \A i \in 1..MaxJudges : WF_vars(Completes(c, i))


\* ------------------------------------------------------------------ any kernel
\* The first call has an empty panel, the second any panel, and build_kernel
\* gives kernels of any one kind of Kernels.
InitCtx ==
    /\ assembly \in {a \in [Calls -> Assemblies] :
                        a[1].judges = <<>> /\ TotalJudges(a, Calls) <= MaxJudges}
    /\ prompt \in {f \in [Calls -> Prompts] : f[1] = <<"p">>}
    /\ pc = [c \in Calls |-> "idle"]
    /\ kernel = [c \in Calls |-> 0]
    /\ super_judge = [c \in Calls |-> 0]
    /\ sub_judges = [c \in Calls |-> <<>>]
    /\ it = [c \in Calls |-> 0]
    /\ cj = [c \in Calls |-> <<>>]
    /\ judges = [k \in SJIds |-> <<>>]
    /\ evaluations = [k \in SJIds |-> <<>>]
    /\ task = [c \in Calls |-> <<>>]
    /\ gather = [c \in Calls |-> NoGather]
    /\ ready = <<>>
    /\ cur = 0
    /\ report = [c \in Calls |-> None]
    /\ error = [c \in Calls |-> NoExc]
    /\ completed = [c \in Calls |-> <<>>]
    /\ sent = [c \in Calls |-> <<>>]
    /\ settings \in {[k \in Calls |-> ks] : ks \in Kernels}
    /\ last = [k \in SJIds |-> NoOp]
    /\ store = [database |-> TRUE, items |-> Items]
    /\ NoRequests

SpecCtx == InitCtx /\ [][Next]_vars


\* ------------------------------------------------------------------ POST /evaluate
\* The Assembly a call holds before the endpoint has built one.
NoAssembly == [id |-> <<>>, judges |-> <<>>, roles |-> <<>>]

InitHttp ==
    /\ assembly = [c \in Calls |-> NoAssembly]
    /\ prompt = [c \in Calls |-> <<>>]
    /\ pc = [c \in Calls |-> "idle"]
    /\ kernel = [c \in Calls |-> 0]
    /\ super_judge = [c \in Calls |-> 0]
    /\ sub_judges = [c \in Calls |-> <<>>]
    /\ it = [c \in Calls |-> 0]
    /\ cj = [c \in Calls |-> <<>>]
    /\ judges = [k \in SJIds |-> <<>>]
    /\ evaluations = [k \in SJIds |-> <<>>]
    /\ task = [c \in Calls |-> <<>>]
    /\ gather = [c \in Calls |-> NoGather]
    /\ ready = <<>>
    /\ cur = 0
    /\ report = [c \in Calls |-> None]
    /\ error = [c \in Calls |-> NoExc]
    /\ completed = [c \in Calls |-> <<>>]
    /\ sent = [c \in Calls |-> <<>>]
    /\ settings = [k \in Calls |-> StoredSettings]
    /\ last = [k \in SJIds |-> NoOp]
    /\ store \in Stores
    /\ NoRequests

\* A client posts a body to /evaluate.  The framework validates it as a
\* JudgeEvaluation: a body that does not validate is answered by
\* validation_exception_handler and the endpoint is not entered; otherwise
\* evaluate_judgment starts and suspends in fetch_assembly.
Post(c, req) ==
    /\ cur = 0
    /\ pc[c] = "idle"
    /\ \A d \in Calls : d < c => pc[d] # "idle"
    /\ request' = [request EXCEPT ![c] = req]
    /\ IF req.method \notin Methods
       THEN /\ response' = [response EXCEPT ![c] =
                               ExceptionResponse(Exc("RequestValidationError", 0, <<>>))]
            /\ pc' = [pc EXCEPT ![c] = "rejected"]
       ELSE /\ response' = response
            /\ pc' = [pc EXCEPT ![c] = "fetching"]
    /\ UNCHANGED <<store, fetched, assembly, prompt, ready, kernel, super_judge, sub_judges,
                   it, cj, judges, evaluations, task, gather, cur, report, error,
                   completed, sent, settings, last>>

\* fetch_assembly returns and evaluate_judgment goes on: without a document
\* it raises the HTTPException of 404; Assembly(**assembly_doc) raises
\* ValidationError, outside the try, when the document has errors;
\* otherwise the endpoint awaits run_evaluation(assembly, evaluation.prompt),
\* whose coroutine is the next the thread runs.
Fetched(c) ==
    /\ cur = 0
    /\ pc[c] = "fetching"
    /\ LET assembly_doc == fetch_assembly(store, request[c].id)
       IN  /\ fetched' = [fetched EXCEPT ![c] = assembly_doc]
           /\ IF assembly_doc = NoDocument
              THEN /\ response' = [response EXCEPT ![c] =
                          ExceptionResponse(Exc("HTTPException", HTTP_404_NOT_FOUND,
                              <<"Assembly '">> \o request[c].id \o <<"' not found.">>))]
                   /\ pc' = [pc EXCEPT ![c] = "not_found"]
                   /\ UNCHANGED <<assembly, prompt, ready>>
              ELSE IF AssemblyErrors(assembly_doc) # {}
              THEN /\ response' = [response EXCEPT ![c] =
                          ExceptionResponse(Exc("ValidationError", 0, <<>>))]
                   /\ pc' = [pc EXCEPT ![c] = "invalid"]
                   /\ UNCHANGED <<assembly, prompt, ready>>
              ELSE /\ assembly' = [assembly EXCEPT ![c] = AssemblyOf(assembly_doc)]
                   /\ prompt' = [prompt EXCEPT ![c] = request[c].prompt]
                   /\ pc' = [pc EXCEPT ![c] = "scheduled"]
                   /\ ready' = <<Handle("call", c, 0)>> \o ready
                   /\ response' = response
    /\ UNCHANGED <<store, request, kernel, super_judge, sub_judges,
                   it, cj, judges, evaluations, task, gather, cur, report, error,
                   completed, sent, settings, last>>

\* fetch_assembly raises: the database answers with an error that is not
\* CosmosResourceNotFoundError, which nothing in the endpoint catches.
FetchError(c) ==
    /\ cur = 0
    /\ pc[c] = "fetching"
    /\ response' = [response EXCEPT ![c] =
                       ExceptionResponse(Exc("CosmosHttpResponseError", 0, <<>>))]
    /\ pc' = [pc EXCEPT ![c] = "fetch_failed"]
    /\ UNCHANGED <<store, request, fetched, assembly, prompt, ready, kernel, super_judge, sub_judges,
                   it, cj, judges, evaluations, task, gather, cur, report, error,
                   completed, sent, settings, last>>

\* Variant: the endpoint answers with the success message whatever
\* run_evaluation did.
EvaluateResponse_AlwaysSuccess(req, raised, verdict, ex) ==
    SuccessMessage(req.id, verdict)

\* What evaluate_judgment answers once run_evaluation has ended: the
\* HTTPException of 500 with str(ex) when it raised, the success message
\* with the verdict when it returned.
EvaluateResponse(req, raised, verdict, ex) ==
    IF raised
    THEN ExceptionResponse(Exc("HTTPException", HTTP_500_INTERNAL_SERVER_ERROR, Str(ex)))
    ELSE SuccessMessage(req.id, verdict)

\* run_evaluation has returned or raised, and the response is sent.
Respond(c) ==
    /\ cur = 0
    /\ pc[c] \in {"returned", "raised"}
    /\ request[c] # NoRequest
    /\ response[c] = NoResponse
    /\ response' = [response EXCEPT ![c] =
                       EvaluateResponse(request[c], pc[c] = "raised", report[c], error[c])]
    /\ UNCHANGED <<store, request, fetched, assembly, prompt, pc, ready, kernel, super_judge, sub_judges,
                   it, cj, judges, evaluations, task, gather, cur, report, error,
                   completed, sent, settings, last>>

NextHttp ==
    \/ \E c \in Calls : \E req \in Requests : Post(c, req)
    \/ \E c \in Calls : Fetched(c)
    \/ \E c \in Calls : FetchError(c)
    \/ \E c \in Calls : Respond(c)
    \/ \E c \in Calls : BuildKernel(c)
    \/ \E c \in Calls : NewSuperJudge(c)
    \/ \E c \in Calls : CreateJudges(c)
    \/ \E c \in Calls : RegisterJudge(c)
    \/ \E c \in Calls : RegisterDone(c)
    \/ \E c \in Calls : Evaluate(c)
    \/ \E c \in Calls : Wake(c)
    \/ \E c \in Calls : FinalVerdict(c)
    \/ \E c \in Calls : \E i \in 1..Len(task[c]) : TaskStart(c, i)
    \/ \E c \in Calls : \E i \in 1..Len(task[c]) : \E msgs \in Replies(task[c][i].prompt) : LLMReply(c, i, msgs)
    \/ \E c \in Calls : \E i \in 1..Len(task[c]) : LLMError(c, i)
    \/ \E c \in Calls : \E i \in 1..Len(task[c]) : TaskResume(c, i)
    \/ \E c \in Calls : \E i \in 1..Len(task[c]) : DoneCallback(c, i)

SpecHttp == InitHttp /\ [][NextHttp]_vars


\* ------------------------------------------------------------------ properties
\* The permutations of 1..n.
Perms(n) == {f \in [1..n -> 1..n] : \A a, b \in 1..n : f[a] = f[b] => a = b}

\* _evaluations of the SuperJudge of call c.
Collected(c) == evaluations[super_judge[c]]

\* The line final_verdict renders for a verdict.
Rendered(ev) == ev.judge_name \o Arrow \o ev.result

\* run_evaluation returned (its report is set).
Returned(c) == pc[c] = "returned"

\* SuperJudge.evaluate (Coordinator.run) has completed for call c.
RunCompleted(c) == pc[c] \in {"final_verdict", "returned", "raised"}

Pending(c, i) == task[c][i].pc \notin {"done", "failed"}

\* C1: fan-out completeness.  When run_evaluation has returned for a panel
\* of N judges, the collected verdict list holds exactly N entries, which
\* are the judges of the panel each taken exactly once, and the report is
\* the N rendered verdicts (the sentinel when N = 0).
C1_FanOutComplete ==
    \A c \in Calls : Returned(c) =>
        LET js == assembly[c].judges
            ev == Collected(c)
        IN  /\ Len(ev) = Len(js)
            /\ \E f \in Perms(Len(js)) : \A k \in 1..Len(js) :
                   /\ ev[k].judge_id = js[f[k]].id
                   /\ ev[k].judge_name = js[f[k]].name
            /\ report[c] = IF Len(js) = 0 THEN NoEvaluations
                           ELSE Join(NL, [k \in 1..Len(ev) |-> Rendered(ev[k])])

\* A call returned for a panel of two different judges.
C1_Witness ==
    \E c \in Calls :
        /\ Returned(c)
        /\ Len(assembly[c].judges) >= 2
        /\ assembly[c].judges[1] # assembly[c].judges[2]

\* C2 as claimed: Coordinator.run is complete, normally or with a failure,
\* only when no evaluate of the run is pending.
C2_FullBarrier ==
    \A c \in Calls : RunCompleted(c) => \A i \in 1..Len(task[c]) : ~Pending(c, i)

\* C2 amended: a run that completes normally does so only when every
\* evaluate of the run has returned; a run that completes with a failure
\* carries the exception of an evaluate that has failed, siblings being
\* possibly still pending.
C2_BarrierOnSuccess ==
    \A c \in Calls :
        /\ pc[c] \in {"final_verdict", "returned"} =>
               \A i \in 1..Len(task[c]) : task[c][i].pc = "done"
        /\ pc[c] = "raised" =>
               \E i \in 1..Len(task[c]) :
                   task[c][i].pc = "failed" /\ error[c] = task[c][i].exc

\* A run has propagated a failure while a sibling is still in its LLM call.
C2_Witness ==
    \E c \in Calls :
        /\ pc[c] = "raised"
        /\ \E i \in 1..Len(task[c]) : task[c][i].pc = "invoking"

\* The loop has nothing to run: every coroutine waits for the service or
\* has ended.
Quiescent == cur = 0 /\ ready = <<>>

\* C3: all-or-nothing.  Once an evaluate of a call has failed, the call
\* never returns a report: it does not reach its final_verdict, and when
\* the loop has drained it has raised.
C3_AllOrNothing ==
    \A c \in Calls :
        (\E i \in 1..Len(task[c]) : task[c][i].pc = "failed") =>
            /\ pc[c] \notin {"final_verdict", "returned"}
            /\ report[c] = None
            /\ Quiescent => pc[c] = "raised"

\* A call raised although a sibling's verdict had been collected.
C3_Witness ==
    \E c \in Calls :
        /\ pc[c] = "raised"
        /\ Len(Collected(c)) >= 1
        /\ report[c] = None


\* The data dict evaluate builds for task i of call c once it has its reply.
DataOf(c, i) ==
    EvaluationData(Obj(task[c][i].judge).judge_data, ResultStr(task[c][i].reply))

\* The steps of an evaluate task.
TaskSteps ==
    { <<"created", "invoking">>, <<"created", "failed">>, <<"invoking", "resumable">>,
      <<"resumable", "done">>, <<"resumable", "failed">> }

\* A task that has not ended is waiting for the service or queued on the loop.
StillScheduled ==
    \A c \in Calls : \A i \in 1..Len(task[c]) :
        \/ task[c][i].pc \in {"done", "failed", "invoking"}
        \/ /\ task[c][i].pc \in {"created", "resumable"}
           /\ \E k \in 1..Len(ready) : ready[k] = Handle("task", c, i)

\* C4: the fan-out is not short-circuited.  A task only ever takes the steps
\* of its own evaluate, whatever has become of its siblings and of the run:
\* the step in which an evaluate fails leaves every sibling task as it was,
\* a task that has not ended stays scheduled, and a sibling that succeeds
\* appends its verdict to the coordinator's list.
C4_NotShortCircuited ==
    /\ []StillScheduled
    /\ [][\A c \in Calls : \A i \in 1..Len(task[c]) :
            /\ task'[c][i].pc # task[c][i].pc =>
                  <<task[c][i].pc, task'[c][i].pc>> \in TaskSteps
            /\ (task[c][i].pc # "failed" /\ task'[c][i].pc = "failed") =>
                  \A j \in 1..Len(task[c]) : j # i => task'[c][j] = task[c][j]
            /\ (task[c][i].pc = "resumable" /\ task'[c][i].pc = "done") =>
                  evaluations'[super_judge[c]] = Append(Collected(c), DataOf(c, i))]_vars

\* The first judge failed, its sibling ended after it, with success, and
\* its verdict is in the list of the run that has raised.
C4_Witness ==
    \E c \in Calls :
        /\ pc[c] = "raised"
        /\ completed[c] = <<1, 2>>
        /\ task[c][1].pc = "failed" /\ task[c][2].pc = "done"
        /\ Collected(c) = <<DataOf(c, 2)>>

\* The tasks of call c that failed, in the order they ended.
FailedInOrder(c) == SelectSeq(completed[c], LAMBDA i : task[c][i].pc = "failed")

\* C5: the failure run_evaluation raises is the exception of the task that
\* failed first in completion order, and it is one exception.
C5_FirstFailureSurfaced ==
    \A c \in Calls : pc[c] = "raised" =>
        /\ FailedInOrder(c) # <<>>
        /\ error[c] = task[c][FailedInOrder(c)[1]].exc
        /\ error[c].src = FailedInOrder(c)[1]

\* Both judges failed, the second registered first, and its failure is the
\* one raised.
C5_Witness ==
    \E c \in Calls :
        /\ pc[c] = "raised"
        /\ FailedInOrder(c) = <<2, 1>>
        /\ error[c].src = 2

\* The tasks of call c that succeeded, in the order they ended.
DoneInOrder(c) == SelectSeq(completed[c], LAMBDA i : task[c][i].pc = "done")

\* C6: the verdict list is the notifications in the order they were made,
\* which is the order in which the evaluators completed, and the report
\* renders it in that order.
C6_ArrivalOrder ==
    \A c \in Calls : super_judge[c] # 0 =>
        /\ Len(Collected(c)) = Len(sent[c])
        /\ \A k \in 1..Len(sent[c]) : Collected(c)[k] = sent[c][k].data
        /\ Len(sent[c]) = Len(DoneInOrder(c))
        /\ \A k \in 1..Len(sent[c]) : sent[c][k].sender = task[c][DoneInOrder(c)[k]].judge
        /\ (Returned(c) /\ Len(sent[c]) > 0) =>
               report[c] = Join(NL, [k \in 1..Len(sent[c]) |-> Rendered(sent[c][k].data)])

\* A report whose first line is the second registered judge's.
C6_Witness ==
    \E c \in Calls :
        /\ Returned(c)
        /\ completed[c] = <<2, 1>>
        /\ assembly[c].judges[1].name # assembly[c].judges[2].name
        /\ report[c] = Rendered(DataOf(c, 2)) \o NL \o Rendered(DataOf(c, 1))

\* The tasks whose evaluate notifies SuperJudge k in the step taken.
Notifying(k) ==
    {t \in {<<c, i>> : c \in Calls, i \in 1..MaxJudges} :
        /\ t[2] <= Len(task[t[1]])
        /\ task[t[1]][t[2]].pc = "resumable"
        /\ task'[t[1]][t[2]].pc = "done"
        /\ Obj(task[t[1]][t[2]].judge).mediator = k}

\* C7: in every step, whatever the interleaving, a verdict list changes only
\* by one notify appending one entry, which holds the id, the name and the
\* result of the one evaluator that notifies; the entries already there are
\* kept as they were.
C7_NotifyAppendsOne ==
    [][\A k \in SJIds :
          IF Notifying(k) = {} THEN evaluations'[k] = evaluations[k]
          ELSE \E t \in Notifying(k) :
                  /\ Notifying(k) = {t}
                  /\ evaluations'[k] = Append(evaluations[k],
                        [judge_id |-> Obj(task[t[1]][t[2]].judge).judge_data.id,
                         judge_name |-> Obj(task[t[1]][t[2]].judge).judge_data.name,
                         result |-> ResultStr(task[t[1]][t[2]].reply)])]_vars

\* Two evaluators have notified the same coordinator while its run is
\* still suspended.
C7_Witness ==
    \E c \in Calls :
        /\ pc[c] = "awaiting"
        /\ Len(Collected(c)) = 2
        /\ Collected(c)[1] # Collected(c)[2]

\* C8: calls do not share state.  Each call has a SuperJudge and
\* ConcreteJudges of its own, and the report a call returns renders the
\* verdicts of its own judges on replies to its own prompt, and nothing else.
C8_Stateless ==
    /\ \A c, d \in Calls :
          (c # d /\ super_judge[c] # 0 /\ super_judge[d] # 0) =>
              super_judge[c] # super_judge[d]
    /\ \A c \in Calls : super_judge[c] # 0 =>
          \A k \in 1..Len(judges[super_judge[c]]) : judges[super_judge[c]][k][1] = c
    /\ \A c \in Calls : Returned(c) =>
          LET n == Len(assembly[c].judges)
          IN  \E f \in Perms(n) :
                 /\ \A k \in 1..n : task[c][k].reply \in Replies(prompt[c])
                 /\ report[c] =
                        IF n = 0 THEN NoEvaluations
                        ELSE Join(NL, [k \in 1..n |->
                                 assembly[c].judges[f[k]].name \o Arrow
                                     \o ResultStr(task[c][f[k]].reply)])

\* The second call has returned its report while the first, with another
\* prompt, is still suspended in its run.
C8_Witness ==
    /\ Returned(2)
    /\ pc[1] = "awaiting"
    /\ prompt[1] # prompt[2]
    /\ Len(assembly[1].judges) >= 1 /\ Len(assembly[2].judges) >= 1

\* The notifications task i of call c has sent.
SentBy(c, i) == {k \in 1..Len(sent[c]) : sent[c][k].sender = task[c][i].judge}

\* C9: an evaluate that has returned has sent exactly one notification,
\* "evaluation_done" with the judge's id, the judge's name and the result;
\* an evaluate that has failed or has not ended has sent none.
C9_OneNotification ==
    \A c \in Calls : \A i \in 1..Len(task[c]) :
        IF task[c][i].pc = "done"
        THEN /\ Cardinality(SentBy(c, i)) = 1
             /\ \A k \in SentBy(c, i) :
                   /\ sent[c][k].event = "evaluation_done"
                   /\ sent[c][k].to = Obj(task[c][i].judge).mediator
                   /\ sent[c][k].data =
                         [judge_id |-> assembly[c].judges[i].id,
                          judge_name |-> assembly[c].judges[i].name,
                          result |-> ResultStr(task[c][i].reply)]
        ELSE SentBy(c, i) = {}

\* One evaluate has returned and notified, its sibling has failed.
C9_Witness ==
    \E c \in Calls : \E i, j \in 1..Len(task[c]) :
        /\ task[c][i].pc = "done" /\ task[c][j].pc = "failed"
        /\ Len(sent[c]) = 1

\* The panel of call c has a judge whose metaprompt is not JSON.
HasBroken(c) ==
    \E i \in 1..Len(assembly[c].judges) : ~JsonLoads(assembly[c].judges[i].metaprompt).ok

\* C10: a call whose panel has a judge with a metaprompt that is not valid
\* JSON never returns a report, and has raised once the loop has drained,
\* whatever the other judges of the panel are.  (Stated contrapositively: a
\* call that has got to its final verdict, has a report, or has not raised
\* although it arrived and the loop has drained, has no such judge.)
C10_MalformedFailsPanel ==
    \A c \in Calls :
        ( \/ pc[c] \in {"final_verdict", "returned"}
          \/ report[c] # None
          \/ (Quiescent /\ pc[c] \notin {"idle", "raised"}) ) => ~HasBroken(c)

\* A call has raised the ValueError of its malformed second judge while its
\* well-formed first judge succeeded.
C10_Witness ==
    \E c \in Calls :
        /\ pc[c] = "raised"
        /\ Len(assembly[c].judges) = 2
        /\ JsonLoads(assembly[c].judges[1].metaprompt).ok
        /\ ~JsonLoads(assembly[c].judges[2].metaprompt).ok
        /\ error[c] = [type |-> "ValueError", src |-> 2]
        /\ task[c][1].pc = "done"

\* C11: empty-panel sentinel.  A call for a panel with no judge makes no
\* evaluate task at any time (the service is never invoked), and the report
\* a call returns is the sentinel "[No evaluations received]" exactly when
\* the verdict list it was rendered from is empty; so the report of an
\* empty panel is the sentinel.
C11_EmptyPanelSentinel ==
    \A c \in Calls :
        /\ assembly[c].judges = <<>> => task[c] = <<>> /\ completed[c] = <<>>
        /\ Returned(c) =>
              /\ report[c] = NoEvaluations <=> Collected(c) = <<>>
              /\ assembly[c].judges = <<>> => report[c] = NoEvaluations

\* A call with an empty panel has returned, and so has a call with a judge.
C11_Witness ==
    \E c, d \in Calls :
        /\ Returned(c) /\ assembly[c].judges = <<>> /\ report[c] = NoEvaluations
        /\ Returned(d) /\ assembly[d].judges # <<>> /\ report[d] # NoEvaluations

\* A message that is purely a function-call or function-result marker.
IsMarker(m) == \A k \in 1..Len(m.items) : IsFunctionItem(m.items[k])

\* A message of text alone.
IsText(m) == \A k \in 1..Len(m.items) : ~IsFunctionItem(m.items[k])

\* The text messages of an answer made of markers and texts.
Texts(msgs) == SelectSeq(msgs, IsText)

\* C12: single-evaluator passthrough.  When a call for a panel of one judge
\* has returned, its report is "{name} => {result}" with the judge's name
\* and the result the judge recorded; and when the service's answer holds,
\* besides markers, one text that is not blank, that result is the text
\* with its leading and trailing whitespace removed.
C12_SinglePassthrough ==
    \A c \in Calls :
        (Returned(c) /\ Len(assembly[c].judges) = 1) =>
            LET jd   == assembly[c].judges[1]
                msgs == task[c][1].reply
            IN  /\ Len(Collected(c)) = 1
                /\ report[c] = jd.name \o Arrow \o Collected(c)[1].result
                /\ ( /\ \A k \in 1..Len(msgs) : IsMarker(msgs[k]) \/ IsText(msgs[k])
                     /\ Len(Texts(msgs)) = 1
                     /\ Strip(Texts(msgs)[1].content) # <<>> )
                   => Collected(c)[1].result = Strip(Texts(msgs)[1].content)

\* A call has returned "A => y" for the answer " y\n" that came after a
\* function call.
C12_Witness ==
    \E c \in Calls :
        /\ Returned(c)
        /\ task[c] # <<>>
        /\ task[c][1].reply = <<FunctionCallMsg, TextMsg(<<" ", "y", "\n">>)>>
        /\ report[c] = <<"A">> \o Arrow \o <<"y">>

\* An answer with nothing to show: every message is a marker or a blank text.
EmptyOutput(msgs) ==
    \A k \in 1..Len(msgs) :
        IsMarker(msgs[k]) \/ (IsText(msgs[k]) /\ Strip(msgs[k].content) = <<>>)

\* C13: empty-output sentinel.  An evaluate fails only with the exception
\* of its metaprompt or of the service, never for what the answer holds;
\* and an evaluate that has returned for an answer of markers and blank
\* texts only (or of no message) has recorded exactly "[No output from LLM]".
C13_EmptyOutputSentinel ==
    \A c \in Calls : \A i \in 1..Len(task[c]) :
        /\ task[c][i].pc = "failed" => task[c][i].exc # NoExc
        /\ (task[c][i].pc = "done" /\ EmptyOutput(task[c][i].reply)) =>
              /\ DataOf(c, i).result = NoOutput
              /\ \E k \in 1..Len(sent[c]) :
                    /\ sent[c][k].sender = task[c][i].judge
                    /\ sent[c][k].data.result = NoOutput
              /\ \E k \in 1..Len(Collected(c)) : Collected(c)[k].result = NoOutput

\* A call has returned "A => [No output from LLM]" for an answer of a
\* function call and a blank text.
C13_Witness ==
    \E c \in Calls :
        /\ Returned(c)
        /\ task[c] # <<>>
        /\ task[c][1].reply = <<FunctionCallMsg, TextMsg(<<" ">>)>>
        /\ report[c] = <<"A">> \o Arrow \o NoOutput

\* SuperJudge k has had a call of method op in this step.
Called(k, op) == last'[k].n = last[k].n + 1 /\ last'[k].op = op

\* C14: notify.  A call of notify with the event "evaluation_done" appends
\* its data, as it is, as the new last element of the SuperJudge's verdict
\* list; a call with any other event leaves the list as it was.  In both
\* cases the lists of the other SuperJudges, the registered evaluators of
\* all and the state of every owner (no exception raised) stay as they were.
C14_NotifyFrame ==
    [][\A k \in SJIds :
          Called(k, "notify") =>
              /\ evaluations'[k] =
                     IF last'[k].event = "evaluation_done"
                     THEN Append(evaluations[k], last'[k].data)
                     ELSE evaluations[k]
              /\ \A j \in SJIds \ {k} : evaluations'[j] = evaluations[j]
              /\ judges' = judges
              /\ pc' = pc /\ error' = error]_vars

\* SuperJudge 1 holds a verdict and has just been notified of another event.
C14_Witness ==
    /\ last[1].op = "notify" /\ last[1].event = "evaluation_started"
    /\ last[1].before = "notify"
    /\ evaluations[1] = <<DirectData>>

\* C15: idempotent report rendering.  A call of final_verdict changes neither
\* the verdict list nor the registered evaluators of any SuperJudge, and
\* when the call before it on the same SuperJudge was final_verdict too
\* (no run, registration or notification in between) it returns the text
\* that call returned.
C15_ReportIdempotent ==
    [][\A k \in SJIds :
          Called(k, "final_verdict") =>
              /\ evaluations' = evaluations
              /\ judges' = judges
              /\ last[k].op = "final_verdict" => last'[k].text = last[k].text]_vars

\* final_verdict has been called twice in a row on a SuperJudge holding the
\* verdict of a run.
C15_Witness ==
    /\ last[1].op = "final_verdict" /\ last[1].before = "final_verdict"
    /\ Len(evaluations[1]) = 1
    /\ last[1].text = <<"A">> \o Arrow \o <<"p">>
    /\ report[1] = last[1].text

\* The places of x in the sequence q.
Places(q, x) == {k \in 1..Len(q) : q[k] = x}

\* C17: one evaluate per registration.  register_judge adds its evaluator
\* as a new last element of _judges whatever the list holds already; a run
\* makes one evaluate for each element of _judges, in their order and with
\* the prompt the run was given, so an evaluator that is k times in the list
\* gets k of them; and each evaluate is started once and ends once: until it
\* has ended it is queued on the loop exactly once or waits for the service.
C17_OncePerRegistration ==
    /\ [](\A c \in Calls : \A i \in 1..Len(task[c]) :
            LET queued == Cardinality(Places(ready, Handle("task", c, i)))
                ended  == Cardinality(Places(completed[c], i))
            IN  /\ task[c][i].pc \in {"created", "resumable"} => queued = 1 /\ ended = 0
                /\ task[c][i].pc = "invoking" => queued = 0 /\ ended = 0
                /\ task[c][i].pc \in {"done", "failed"} => queued = 0 /\ ended = 1)
    /\ [][\A k \in SJIds :
             /\ Called(k, "register_judge") =>
                   /\ judges'[k] = Append(judges[k], last'[k].judge)
                   /\ \A j \in SJIds \ {k} : judges'[j] = judges[j]
             /\ Called(k, "evaluate") =>
                   \E c \in Calls :
                       /\ cur = c /\ super_judge[c] = k
                       /\ last'[k].text = prompt[c]
                       /\ Len(task'[c]) = Len(judges[k])
                       /\ \A i \in 1..Len(judges[k]) :
                             /\ task'[c][i].judge = judges[k][i]
                             /\ task'[c][i].prompt = prompt[c]
                             /\ task'[c][i].pc = "created"
                       /\ \A e \in PoolIds :
                             Cardinality({i \in 1..Len(task'[c]) : task'[c][i].judge = e})
                                 = Cardinality(Places(judges[k], e))]_vars

\* One evaluator was registered twice with SuperJudge 1, and a run with the
\* prompt "q" has ended with its two verdicts.
C17_Witness ==
    /\ judges[1] = << <<1, 1>>, <<1, 1>> >>
    /\ pc[1] = "returned"
    /\ Len(task[1]) = 2 /\ task[1][1].prompt = <<"q">> /\ task[1][2].prompt = <<"q">>
    /\ task[1][1].pc = "done" /\ task[1][2].pc = "done"
    /\ Len(evaluations[1]) = 2

\* The evaluator of task i of call c has no mediator.
Unbound(c, i) == Obj(task[c][i].judge).mediator = 0

\* C18: an evaluator without a coordinator.  An evaluate of an evaluator
\* that has no mediator, once the service has answered it, returns (it never
\* fails), and in returning it notifies nobody: no verdict list and no
\* SuperJudge changes.  Such an evaluate has sent nothing at any time, and
\* its owner is resumed without an exception.
C18_UnboundDropsResult ==
    /\ [](\A c \in Calls : \A i \in 1..Len(task[c]) :
            Unbound(c, i) =>
                /\ SentBy(c, i) = {}
                /\ task[c][i].pc = "done" => gather[c].exc = NoExc /\ error[c] = NoExc)
    /\ [][\A c \in Calls : \A i \in 1..Len(task[c]) :
             ( /\ Unbound(c, i)
               /\ task[c][i].pc = "resumable" /\ task[c][i].exc = NoExc
               /\ Len(task'[c]) = Len(task[c])
               /\ task'[c][i].pc # "resumable" )
             => /\ task'[c][i].pc = "done"
                /\ evaluations' = evaluations
                /\ sent' = sent
                /\ last' = last /\ cj' = cj]_vars

\* An evaluator without a mediator has returned an answer that had text;
\* its owner has been resumed and finds no verdict anywhere.
C18_Witness ==
    \E c \in Calls :
        /\ pc[c] = "returned"
        /\ task[c] # <<>>
        /\ Obj(task[c][1].judge).mediator = 0
        /\ task[c][1].pc = "done"
        /\ ResultStr(task[c][1].reply) = <<"q">>
        /\ \A k \in SJIds : evaluations[k] = <<>>
        /\ error[c] = NoExc

\* The steps of run_evaluation, in the order of its statements.
RunSteps ==
    { <<"idle", "scheduled">>, <<"scheduled", "super_judge">>,
      <<"super_judge", "create_judges">>, <<"create_judges", "register">>,
      <<"register", "evaluate">>, <<"evaluate", "awaiting">>,
      <<"evaluate", "final_verdict">>, <<"awaiting", "final_verdict">>,
      <<"awaiting", "raised">>, <<"final_verdict", "returned">> }

\* Every evaluator of the panel of call c is made and registered with the
\* call's SuperJudge, in the order of the panel.
AllRegistered(c) ==
    /\ super_judge[c] # 0
    /\ Len(cj[c]) = Len(assembly[c].judges)
    /\ judges[super_judge[c]] = [i \in 1..Len(assembly[c].judges) |-> <<c, i>>]
    /\ \A i \in 1..Len(cj[c]) :
          /\ cj[c][i].mediator = super_judge[c]
          /\ cj[c][i].judge_data = assembly[c].judges[i]
          /\ cj[c][i].kernel = kernel[c]

\* C16: the order of run_evaluation.  A call goes through its steps in the
\* order build kernel, make a new SuperJudge (without judges or verdicts),
\* make the evaluators, register them one by one, evaluate, final_verdict,
\* each step once and on what the steps before it have made.  No evaluate
\* task exists before every evaluator of the panel is registered; the run
\* is started once, with the prompt of the call; and the report returned is
\* final_verdict of the verdict list as it is after the run has completed.
C16_StepOrder ==
    /\ [](\A c \in Calls :
            /\ pc[c] \in {"idle", "scheduled"} => kernel[c] = 0 /\ super_judge[c] = 0
            /\ pc[c] = "super_judge" => kernel[c] # 0 /\ super_judge[c] = 0
            /\ pc[c] = "create_judges" =>
                  /\ super_judge[c] # 0 /\ cj[c] = <<>>
                  /\ judges[super_judge[c]] = <<>> /\ evaluations[super_judge[c]] = <<>>
            /\ pc[c] = "register" =>
                  /\ Len(cj[c]) = Len(assembly[c].judges)
                  /\ judges[super_judge[c]] = [i \in 1..(it[c] - 1) |-> <<c, i>>]
                  /\ evaluations[super_judge[c]] = <<>>
            /\ pc[c] \in {"idle", "scheduled", "super_judge", "create_judges", "register",
                           "evaluate"} => task[c] = <<>> /\ report[c] = None
            /\ pc[c] \in {"evaluate", "awaiting", "final_verdict", "returned", "raised"}
                  => AllRegistered(c)
            /\ task[c] # <<>> => AllRegistered(c)
            /\ pc[c] = "final_verdict" => gather[c].outer = "result"
            /\ pc[c] # "returned" => report[c] = None)
    /\ [][\A c \in Calls :
             /\ pc'[c] # pc[c] => <<pc[c], pc'[c]>> \in RunSteps
             /\ (pc[c] = "evaluate" /\ pc'[c] # "evaluate") =>
                   /\ Called(super_judge[c], "evaluate")
                   /\ last'[super_judge[c]].text = prompt[c]
                   /\ \A i \in 1..Len(task'[c]) : task'[c][i].prompt = prompt[c]
             /\ (super_judge[c] # 0 /\ Called(super_judge[c], "evaluate")) =>
                   pc[c] = "evaluate"
             /\ pc'[c] = "returned" /\ pc[c] # "returned" =>
                   /\ gather[c].outer = "result"
                   /\ \A i \in 1..Len(task[c]) : task[c][i].pc = "done"
                   /\ report'[c] = final_verdict(evaluations[super_judge[c]])
             /\ prompt'[c] = prompt[c] /\ assembly'[c] = assembly[c]]_vars

\* A call for two judges has registered both and awaits their evaluates,
\* the first of which is with the service while the second has not started.
C16_Witness ==
    \E c \in Calls :
        /\ pc[c] = "awaiting"
        /\ Len(assembly[c].judges) = 2
        /\ AllRegistered(c)
        /\ task[c][1].pc = "invoking" /\ task[c][2].pc = "created"

\* run_evaluation of call c has ended: it has returned or raised.
Ended(c) == pc[c] \in {"returned", "raised"}

\* C19: termination without timeout.  With a loop that goes on and a
\* service whose every call completes or fails in the end, a call of
\* run_evaluation that has arrived returns or raises in the end.  And for as
\* long as one evaluate of a call waits for the service the call has no
\* report and is not at its final verdict: nothing but the answer of the
\* service takes an evaluate out of its wait.
C19_Termination ==
    /\ \A c \in Calls : (pc[c] = "scheduled") ~> Ended(c)
    /\ [](\A c \in Calls :
            (\E i \in 1..Len(task[c]) : task[c][i].pc = "invoking") =>
                /\ report[c] = None
                /\ pc[c] \notin {"final_verdict", "returned"})
    /\ [][\A c \in Calls : \A i \in 1..Len(task[c]) :
             ( /\ task[c][i].pc = "invoking"
               /\ Len(task'[c]) = Len(task[c])
               /\ task'[c][i].pc # "invoking" )
             => /\ task'[c][i].pc = "resumable"
                /\ (task'[c][i].exc # NoExc \/ task'[c][i].reply \in Replies(task[c][i].prompt))]_vars

\* A call of two judges has returned its report after both answers came.
C19_Witness ==
    \E c \in Calls :
        /\ pc[c] = "returned"
        /\ Len(task[c]) = 2
        /\ completed[c] = <<2, 1>>

\* C20 as claimed: the context is read-only.  The settings a kernel holds
\* are at all times as they were when the kernel was built.
C20_ContextReadOnly ==
    \A k \in Calls : \A sid \in settings[k].services :
        settings[k].function_choice_behavior[sid] = Unset

\* The kernel and the service id task i of call c resolves its settings with.
KernelOf(c, i) == Obj(task[c][i].judge).kernel

ServiceOf(c, i) ==
    ResolveSettings(settings[KernelOf(c, i)], Obj(task[c][i].judge).judge_data.model)

\* C20, amended: the context is shared, and written in one place.  All
\* evaluators of a call hold the kernel of the call.  An evaluate changes
\* nothing of a kernel but the function_choice_behavior of the settings it
\* resolves, which it sets to Auto in the kernel's own object when the
\* kernel hands that out, and every evaluate gives its agent Auto whatever
\* its siblings have done.  A kernel's settings change in no other step, and
\* never those of another call's kernel.
C20_ContextWrittenOnce ==
    /\ [](\A c \in Calls : \A i \in 1..Len(cj[c]) : cj[c][i].kernel = kernel[c])
    /\ [](\A c \in Calls : \A i \in 1..Len(task[c]) :
            task[c][i].pc \in {"invoking", "resumable", "done"} =>
                /\ task[c][i].arguments = Auto
                /\ settings[KernelOf(c, i)].stored =>
                      settings[KernelOf(c, i)].function_choice_behavior[ServiceOf(c, i)] = Auto)
    /\ [][\A k \in Calls :
             settings'[k] # settings[k] =>
                 /\ settings[k].stored
                 /\ \E c \in Calls : \E i \in 1..Len(task[c]) :
                       /\ KernelOf(c, i) = k /\ kernel[c] = k
                       /\ task[c][i].pc = "created" /\ task'[c][i].pc = "invoking"
                       /\ settings'[k] =
                             [settings[k] EXCEPT
                                !.function_choice_behavior[ServiceOf(c, i)] = Auto]]_vars

\* Two evaluators of one call wait for the service; the kernel they share
\* hands out its own settings, has none for their model, and the settings
\* of its default service have been set to Auto.
C20_Witness ==
    \E c \in Calls :
        /\ Len(task[c]) = 2
        /\ task[c][1].pc = "invoking" /\ task[c][2].pc = "invoking"
        /\ cj[c][1].kernel = cj[c][2].kernel
        /\ settings[kernel[c]].stored
        /\ settings[kernel[c]].services = {Default}
        /\ settings[kernel[c]].function_choice_behavior[Default] = Auto

\* ------------------------------------------------------------------ C21
\* The endpoint of call c has a document that Assembly(**assembly_doc)
\* refuses.
InvalidDocument(c) ==
    /\ fetched[c] \notin {NotFetched, NoDocument}
    /\ AssemblyErrors(fetched[c]) # {}

\* run_evaluation has not been entered for call c.
NotInvoked(c) ==
    /\ pc[c] \in {"idle", "fetching", "rejected", "not_found", "invalid", "fetch_failed"}
    /\ kernel[c] = 0 /\ super_judge[c] = 0 /\ cj[c] = <<>> /\ task[c] = <<>>
    /\ assembly[c] = NoAssembly
    /\ report[c] = None /\ error[c] = NoExc

\* C21 as claimed: when the fetched document fails deserialization into an
\* Assembly, /evaluate answers with a status of the 4xx class and
\* run_evaluation is never invoked.
C21_InvalidDocumentIs4xx ==
    \A c \in Calls :
        InvalidDocument(c) =>
            /\ response[c].status_code \in 400..499
            /\ NotInvoked(c)

\* C21, what the endpoint does: the ValidationError of a fetched document
\* leaves the endpoint, no registered handler takes it, and the answer is
\* the server error of status 500; run_evaluation is never invoked.  The
\* status 400 answers a posted body that does not validate.
C21_InvalidDocumentIs500 ==
    \A c \in Calls :
        /\ InvalidDocument(c) =>
              /\ response[c].status_code = HTTP_500_INTERNAL_SERVER_ERROR
              /\ NotInvoked(c)
        /\ request[c] # NoRequest /\ request[c].method \notin Methods =>
              /\ response[c].status_code = HTTP_400_BAD_REQUEST
              /\ NotInvoked(c)

\* A document whose judge has a metaprompt that is no JSON has been fetched
\* and answered, and so has one whose role is too long.
C21_Witness ==
    /\ \E c \in Calls :
          /\ InvalidDocument(c)
          /\ "metaprompt must be JSON serializable" \in AssemblyErrors(fetched[c])
          /\ response[c] # NoResponse
    /\ \E c \in Calls :
          /\ InvalidDocument(c)
          /\ "each role must have at most 60 characters" \in AssemblyErrors(fetched[c])
          /\ response[c] # NoResponse

\* ------------------------------------------------------------------ C22
\* The database holds an item under the id call c asks for.
Stored(c) ==
    store.database /\ \E d \in store.items : d.id = request[c].id

\* C22: once fetch_assembly has returned, the endpoint holds the stored
\* item of the id asked for when the database exists and holds one, and
\* None otherwise; with None the answer is the 404 that names the id, and
\* run_evaluation is never invoked.
C22_PanelLookup ==
    \A c \in Calls :
        fetched[c] # NotFetched =>
            /\ IF Stored(c)
               THEN fetched[c] \in store.items /\ fetched[c].id = request[c].id
               ELSE fetched[c] = NoDocument
            /\ fetched[c] = NoDocument =>
                  /\ response[c].status_code = HTTP_404_NOT_FOUND
                  /\ response[c].detail =
                        <<"Assembly '">> \o request[c].id \o <<"' not found.">>
                  /\ NotInvoked(c)

\* One request has asked an existing database for an id it holds no item
\* of, and been answered; another has been given the item it asked for.
C22_Witness ==
    /\ store.database
    /\ \E c \in Calls :
          /\ ~Stored(c) /\ fetched[c] = NoDocument
          /\ response[c].status_code = HTTP_404_NOT_FOUND
    /\ \E c \in Calls : Stored(c) /\ fetched[c] \in store.items

\* ------------------------------------------------------------------ C23
\* The endpoint of call c has fetched a document and built its Assembly.
Deserialized(c) ==
    /\ fetched[c] \notin {NotFetched, NoDocument}
    /\ AssemblyErrors(fetched[c]) = {}

\* C23: for a panel fetched and deserialized, no answer is sent before
\* run_evaluation has ended; the answer is the success message of status
\* 200 exactly when run_evaluation returned, and then it carries the id
\* asked for and the text returned; when run_evaluation raised, the answer
\* has status 500 and carries the text of the exception.
C23_OutcomeMapping ==
    \A c \in Calls :
        Deserialized(c) /\ response[c] # NoResponse =>
            /\ pc[c] \in {"returned", "raised"}
            /\ response[c].status_code = HTTP_200_OK <=> pc[c] = "returned"
            /\ pc[c] = "returned" =>
                  /\ response[c].title = "Evaluation Complete"
                  /\ response[c].content =
                        [assembly_id |-> request[c].id, result |-> report[c]]
                  /\ error[c] = NoExc
            /\ pc[c] = "raised" =>
                  /\ response[c].status_code \in 500..599
                  /\ response[c].detail = <<error[c].type>>
                  /\ response[c].content = NoContent

\* One request has been answered with the report of its panel's judge, and
\* another with the failure of its own: the service failed, or the judge's
\* metaprompt, a JSON string, has no get.
C23_Witness ==
    /\ \E c \in Calls :
          /\ Deserialized(c) /\ pc[c] = "returned"
          /\ Len(evaluations[super_judge[c]]) = 1
          /\ response[c].status_code = HTTP_200_OK
    /\ \E c \in Calls :
          /\ Deserialized(c) /\ pc[c] = "raised"
          /\ error[c].type \in {"ServiceError", "AttributeError"}
          /\ response[c].status_code = HTTP_500_INTERNAL_SERVER_ERROR

\* ------------------------------------------------------------------ C24
\* The result the evaluate of task i of call c has sent to its mediator.
Recorded(c, i) ==
    LET hits == {k \in 1..Len(sent[c]) : sent[c][k].sender = task[c][i].judge}
    IN  sent[c][CHOOSE k \in hits : TRUE].data.result

\* An evaluate that has returned and notified.
Notified(c, i) ==
    /\ task[c][i].pc = "done"
    /\ \E k \in 1..Len(sent[c]) : sent[c][k].sender = task[c][i].judge

RECURSIVE TrimmedTexts(_)
\* The text, trimmed, of every message that is not a marker alone.
TrimmedTexts(msgs) ==
    IF msgs = <<>> THEN <<>>
    ELSE IF IsMarker(Head(msgs)) THEN TrimmedTexts(Tail(msgs))
    ELSE <<Strip(Head(msgs).content)>> \o TrimmedTexts(Tail(msgs))

\* C24 as claimed: a message is discarded only if it is purely a
\* function-call or function-result marker, every remaining message
\* contributes its text with surrounding whitespace trimmed, and the
\* contributions are joined, in arrival order, by single newlines (the
\* sentinel standing for an empty result).
C24_PerMessageTrim ==
    \A c \in Calls : \A i \in 1..Len(task[c]) :
        Notified(c, i) =>
            LET r == Join(NL, TrimmedTexts(task[c][i].reply))
            IN  Recorded(c, i) = IF r = <<>> THEN NoOutput ELSE r

\* A message that contributes: none of its items is a function call or a
\* function result, and its text is not blank.
Contributes(m) == IsText(m) /\ Strip(m.content) # <<>>

\* C24, amended: the result is built from the messages in arrival order.
\* A message is discarded when any of its items is a function call or a
\* function result, also when it carries text, and when its text is blank.
\* Every remaining message contributes its text as it is; the
\* contributions are joined by single newlines, and whitespace is trimmed
\* from the two ends of the joined text only, so the whitespace around an
\* inner contribution stays.  An empty outcome is replaced by the sentinel.
C24_WholeTrim ==
    \A c \in Calls : \A i \in 1..Len(task[c]) :
        Notified(c, i) =>
            LET kept == SelectSeq(task[c][i].reply, Contributes)
                r    == Strip(Join(NL, [k \in 1..Len(kept) |-> kept[k].content]))
            IN  /\ Recorded(c, i) = IF r = <<>> THEN NoOutput ELSE r
                /\ Len(kept) = 2 =>
                      Recorded(c, i) =
                          LStrip(kept[1].content) \o NL \o RStrip(kept[2].content)

\* An evaluate has recorded "y\n\nx" for the texts " y\n" and "x": the
\* newline that ends the first text stays.
C24_Witness ==
    \E c \in Calls :
        /\ task[c] # <<>>
        /\ Notified(c, 1)
        /\ task[c][1].reply = <<TextMsg(<<" ", "y", "\n">>), TextMsg(<<"x">>)>>
        /\ Recorded(c, 1) = <<"y", "\n", "\n", "x">>

\* ------------------------------------------------------------------ C25
\* A metaprompt that parses as an object and has no "text" member.
LacksText(metaprompt) ==
    LET meta == JsonLoads(metaprompt)
    IN  meta.ok /\ meta.kind = "dict"
        /\ \A k \in 1..Len(meta.keys) : meta.keys[k] # TextWord

\* The document call c has fetched is a panel of one judge whose metaprompt
\* lacks the "text" member, and nothing else of the document is refused.
PartiallyConfigured(c) ==
    /\ fetched[c] \notin {NotFetched, NoDocument}
    /\ AssemblyFields \subseteq DOMAIN fetched[c]
    /\ Len(fetched[c].judges) = 1
    /\ LacksText(fetched[c].judges[1].metaprompt)
    /\ JudgeErrors(fetched[c].judges[1]) \subseteq
           {"metaprompt must contain the format (text, json)"}
    /\ roles_must_not_exceed_length(fetched[c].roles) = {}

\* The evaluate of a judge without "text" goes on with the placeholder,
\* fails only when the service fails, and sends its verdict when it
\* returns.
PlaceholderUsed(c) ==
    \A i \in 1..Len(task[c]) :
        LacksText(Obj(task[c][i].judge).judge_data.metaprompt) =>
            /\ task[c][i].pc \in {"invoking", "resumable", "done"} =>
                  task[c][i].instructions = SystemPromptMissing
            /\ task[c][i].pc = "failed" => task[c][i].exc.type = "ServiceError"
            /\ task[c][i].pc = "done" =>
                  \E k \in 1..Len(evaluations[super_judge[c]]) :
                      evaluations[super_judge[c]][k] = DataOf(c, i)

\* C25 as claimed: a judge whose metaprompt is parseable structured data
\* without the instruction field can be loaded, its evaluate does not fail
\* on that account, it uses "System Prompt Missing" and it emits its
\* verdict like any other judge.
C25_MissingTextTolerated ==
    \A c \in Calls :
        PartiallyConfigured(c) =>
            /\ AssemblyErrors(fetched[c]) = {}
            /\ pc[c] # "invalid"
            /\ PlaceholderUsed(c)

\* C25, what the code does: the judge is loaded only when its metaprompt
\* holds the words text and json somewhere, as {"json":"text"} does and
\* {"json":"s"} does not; a judge that is loaded is evaluated with the
\* placeholder and emits its verdict.
C25_ToleratedWhenWordsOccur ==
    \A c \in Calls :
        PartiallyConfigured(c) =>
            LET v == fetched[c].judges[1].metaprompt
            IN  /\ (AssemblyErrors(fetched[c]) = {}) <=>
                       (Contains(v, TextWord) /\ Contains(v, JsonWord))
                /\ AssemblyErrors(fetched[c]) # {} =>
                       /\ pc[c] = "invalid"
                       /\ response[c].status_code = HTTP_500_INTERNAL_SERVER_ERROR
                /\ PlaceholderUsed(c)

\* The panel whose judge has the metaprompt {"json":"text"} has been
\* evaluated with the placeholder and its verdict is in the answer.
C25_Witness ==
    \E c \in Calls :
        /\ PartiallyConfigured(c)
        /\ Returned(c)
        /\ task[c][1].instructions = SystemPromptMissing
        /\ Len(evaluations[super_judge[c]]) = 1
        /\ response[c].status_code = HTTP_200_OK

\* ------------------------------------------------------------------ C26
\* s is the beginning of t; s is the end of t.
IsPrefix(s, t) == Len(s) <= Len(t) /\ SubSeq(t, 1, Len(s)) = s

IsSuffix(s, t) == Len(s) <= Len(t) /\ SubSeq(t, Len(t) - Len(s) + 1, Len(t)) = s

\* The verdicts the evaluators of owner c's run have sent to its SuperJudge.
RunVerdicts(c) ==
    LET mine(x) == x.to = super_judge[c]
        s == SelectSeq(sent[c], mine)
    IN  [j \in 1..Len(s) |-> s[j].data]

\* Every evaluator of owner c's run has returned, and none has notified
\* another SuperJudge than c's.
AllSucceeded(c) ==
    /\ \A i \in 1..Len(task[c]) : task[c][i].pc = "done"
    /\ \A j \in 1..Len(sent[c]) : sent[c][j].to = super_judge[c]

\* C26: the verdict list is append-only.  In every step, whichever method
\* is called (register_judge, evaluate, notify, final_verdict) and
\* whatever the evaluators do, the list a SuperJudge had is the beginning
\* of the list it has; it changes only in a notify, by one entry at its
\* end; the start of a run leaves it as it is.  When a run returns, the
\* verdicts of the run are the end of the list, after what the list held
\* before, the report renders the whole list, and a run of N succeeding
\* evaluators has added N entries: a second such run leaves 2N.
C26_AppendOnly ==
    /\ [][\A k \in SJIds :
             /\ IsPrefix(evaluations[k], evaluations'[k])
             /\ evaluations'[k] # evaluations[k] =>
                   /\ Called(k, "notify")
                   /\ Len(evaluations'[k]) = Len(evaluations[k]) + 1]_vars
    /\ [][\A c \in Calls :
             pc[c] \in {"idle", "returned", "raised"} /\ pc'[c] = "evaluate" =>
                 evaluations' = evaluations]_vars
    /\ [][\A c \in Calls :
             pc[c] = "final_verdict" /\ pc'[c] = "returned" =>
                 LET evals == evaluations'[super_judge[c]]
                 IN  /\ IsSuffix(RunVerdicts(c), evals)
                     /\ report'[c] = final_verdict(evals)
                     /\ AllSucceeded(c) =>
                           Len(RunVerdicts(c)) = Len(judges[super_judge[c]])]_vars

\* SuperJudge 1 has been run twice with its one evaluator, which succeeded
\* both times, and has had no other call: its report holds two verdicts.
C26_Witness ==
    /\ Len(judges[1]) = 1
    /\ last[1].n = 7 /\ last[1].op = "final_verdict"
    /\ pc[1] = "returned"
    /\ AllSucceeded(1)
    /\ Len(evaluations[1]) = 2
    /\ \A j \in 1..2 : evaluations[1][j].judge_id = Obj(judges[1][1]).judge_data.id
    /\ report[1] = Rendered(evaluations[1][1]) \o NL \o Rendered(evaluations[1][2])

\* ------------------------------------------------------------------ C27
\* C27: an evaluator notifies the SuperJudge it was registered with last.
\* A register_judge binds the evaluator's mediator to the SuperJudge called,
\* adds the evaluator to that SuperJudge's _judges and takes it out of no
\* other; the mediator changes in no other step.  A run makes one task per
\* element of _judges, whatever the mediators are.  An evaluate that
\* returns appends its verdict to the list of its mediator and to no other
\* list, so not to that of the SuperJudge that ran it when it was
\* registered elsewhere afterwards.
C27_LastRegistrationWins ==
    /\ [][\A k \in SJIds :
             Called(k, "register_judge") =>
                 LET e == last'[k].judge
                 IN  /\ cj'[e[1]][e[2]].mediator = k
                     /\ judges'[k] = Append(judges[k], e)
                     /\ \A h \in SJIds \ {k} : judges'[h] = judges[h]
                     /\ evaluations' = evaluations]_vars
    /\ [][\A c \in Calls : \A i \in 1..Len(cj[c]) :
             cj'[c][i].mediator # cj[c][i].mediator =>
                 \E k \in SJIds :
                     Called(k, "register_judge") /\ last'[k].judge = <<c, i>>]_vars
    /\ [][\A c \in Calls :
             pc[c] = "evaluate" /\ pc'[c] # "evaluate" =>
                 /\ Len(task'[c]) = Len(judges[super_judge[c]])
                 /\ \A i \in 1..Len(task'[c]) :
                       task'[c][i].judge = judges[super_judge[c]][i]]_vars
    /\ [][\A c \in Calls : \A i \in 1..Len(task[c]) :
             task[c][i].pc = "resumable" /\ task'[c][i].pc = "done" =>
                 LET m == Obj(task[c][i].judge).mediator
                 IN  /\ m # 0
                     /\ evaluations'[m] = Append(evaluations[m], DataOf(c, i))
                     /\ \A h \in SJIds \ {m} : evaluations'[h] = evaluations[h]]_vars

\* The one evaluator of SuperJudge 1 was registered with SuperJudge 2
\* afterwards; the run of SuperJudge 1 has invoked it and returned, its
\* verdict is in the list of SuperJudge 2, and SuperJudge 1 reports that it
\* has received no evaluation.
C27_Witness ==
    /\ Len(judges[1]) = 1
    /\ \E k \in 1..Len(judges[2]) : judges[2][k] = judges[1][1]
    /\ Obj(judges[1][1]).mediator = 2
    /\ pc[1] = "returned"
    /\ Len(task[1]) = 1 /\ task[1][1].pc = "done"
    /\ evaluations[1] = <<>>
    /\ evaluations[2] = <<DataOf(1, 1)>>
    /\ report[1] = NoEvaluations

====
